---- MODULE Spec2Model ----
(***************************************************************************)
(* Model of the event-parsing pipeline of app/: the persistent EventStore  *)
(* (learned aliases, LLM response cache, dedup index; app/store.py), the   *)
(* text normalizer (app/utils.py), the LLM parser with its call budget     *)
(* (app/parser_llm.py), the event schema (app/schema.py) and the           *)
(* post-processor (app/postprocess.py).                                    *)
(*                                                                         *)
(* Representation.  A Python str is a sequence of one-character strings,   *)
(* so that normalisation, joining and matching are computed on the         *)
(* characters.  A string the code only compares and never looks into (a   *)
(* message id, a cuisine label, an email body) is a one-element sequence   *)
(* holding its text.  Python None is the token None, which is no str.  A   *)
(* confidence is a fixed-point number: the integer c stands for c / Scale. *)
(* The dedup index is a sequence of entries, in the insertion order a      *)
(* Python dict iterates in.                                                *)
(***************************************************************************)
EXTENDS Integers, Sequences, FiniteSets, TLC

VARIABLES
    learned_aliases,   \* self.data["learned_aliases"]: normalized name -> alias record
    llm_cache,         \* self.data["llm_cache"]: cache key -> [response, timestamp]
    event_dedup,       \* self.data["event_dedup"]: entries [key, id] in insertion order
    store_file,        \* content of the backing JSON file after the last _save_data
    other_data,        \* self.data of a second EventStore over the same file
    now,               \* wall clock (datetime.now()), in hours
    llm_calls_made,    \* LLMParser.llm_calls_made
    max_calls,         \* LLMParser.max_calls (config max_llm_calls_per_run)
    batch,             \* position of a running parse_emails_batch, or idle
    oracle_log,        \* history: oracle invocations of the running batch, made and returned
    last               \* history: the operation just performed, its inputs and result

vars == <<learned_aliases, llm_cache, event_dedup, store_file, other_data, now,
          llm_calls_made, max_calls, batch, oracle_log, last>>

storeVars == <<learned_aliases, llm_cache, event_dedup, store_file>>
parserVars == <<llm_calls_made, max_calls, batch, oracle_log>>

----------------------------------------------------------------------------
(* Bounds of the model *)

\* confident learn_cuisine calls explored per store (sum of sample_count)
MaxSamples == 4
\* entries the dedup index may hold
MaxDedup == 2
\* ticks of the clock
MaxTicks == 2
\* emails of one batch run
MaxBatch == 3
\* largest configured max_llm_calls_per_run explored
MaxBudget == 2
\* hours one tick of the clock advances it
TickHours == 24
\* cleanup_old_data is called with 0 to MaxDays days
MaxDays == 1

----------------------------------------------------------------------------
(* Python values *)

None == <<"<None>">>

IsStr(s) == s # None

\* Python truthiness of an Optional[str]
Truthy(s) == s # None /\ s # <<>>

----------------------------------------------------------------------------
(* utils.norm_text *)

Whitespace == {" ", "\t"}

\* str.casefold on the characters of the model's alphabet
CaseFold(c) ==
    CASE c = "A" -> "a"
      [] c = "B" -> "b"
      [] c = "C" -> "c"
      [] c = "P" -> "p"
      [] c = "R" -> "r"
      [] c = "S" -> "s"
      [] OTHER -> c

\* re.sub(r"\s+", " ", s): every run of whitespace becomes one space
RECURSIVE CollapseWs(_)
CollapseWs(s) ==
    IF s = <<>> THEN <<>>
    ELSE IF Head(s) \in Whitespace
         THEN IF Len(s) > 1 /\ s[2] \in Whitespace
              THEN CollapseWs(Tail(s))
              ELSE <<" ">> \o CollapseWs(Tail(s))
         ELSE <<Head(s)>> \o CollapseWs(Tail(s))

\* str.strip() of a string whose whitespace is already collapsed
Strip(s) ==
    LET a == IF s # <<>> /\ Head(s) \in Whitespace THEN Tail(s) ELSE s
    IN  IF a # <<>> /\ a[Len(a)] \in Whitespace THEN SubSeq(a, 1, Len(a) - 1) ELSE a

norm_text(s) ==
    IF ~IsStr(s) THEN <<>>
    ELSE Strip(CollapseWs([i \in 1..Len(s) |-> CaseFold(s[i])]))

----------------------------------------------------------------------------
(* config.LEARNING_CONFIG, in fixed point *)

RECURSIVE Pow10(_)
Pow10(n) == IF n = 0 THEN 1 ELSE 10 * Pow10(n - 1)

\* One blend divides by ten once, so MaxSamples blends of one-decimal
\* confidences are exact at this scale.
Scale == Pow10(MaxSamples + 1)

Conf(tenths) == tenths * (Scale \div 10)

alias_confidence_threshold_tenths == 7
rolling_average_alpha_tenths == 3

alias_confidence_threshold == Conf(alias_confidence_threshold_tenths)

\* Variant: the weights of the new and the old confidence exchanged
Blend_Swapped(confidence, old_confidence) ==
    ((10 - rolling_average_alpha_tenths) * confidence
       + rolling_average_alpha_tenths * old_confidence) \div 10

\* alpha * confidence + (1 - alpha) * old_confidence
Blend(confidence, old_confidence) ==
    (rolling_average_alpha_tenths * confidence
       + (10 - rolling_average_alpha_tenths) * old_confidence) \div 10

----------------------------------------------------------------------------
(* EventStore: the backing file *)

Data == [learned_aliases |-> learned_aliases, llm_cache |-> llm_cache,
         event_dedup |-> event_dedup]

EmptyMap == <<>>

\* the store file does not exist
NoFile == [missing |-> TRUE]

\* d.get(k) is absent
Has(d, k) == k \in DOMAIN d

Put(d, k, v) == [x \in DOMAIN d \cup {k} |-> IF x = k THEN v ELSE d[x]]

Del(d, k) == [x \in DOMAIN d \ {k} |-> d[x]]

----------------------------------------------------------------------------
(* EventStore.get_learned_cuisine / learn_cuisine *)

\* Variant: the stored label is returned whatever its rolling confidence
get_learned_cuisine_NoThreshold(food_name) ==
    LET normalized_name == norm_text(food_name)
    IN  IF ~Has(learned_aliases, normalized_name) THEN None
        ELSE <<learned_aliases[normalized_name].last_cuisine,
               learned_aliases[normalized_name].rolling_confidence>>

get_learned_cuisine(food_name) ==
    LET normalized_name == norm_text(food_name)
    IN  IF ~Has(learned_aliases, normalized_name) THEN None
        ELSE LET alias_data == learned_aliases[normalized_name]
                 confidence == alias_data.rolling_confidence
             IN  IF confidence >= alias_confidence_threshold
                 THEN <<alias_data.last_cuisine, confidence>>
                 ELSE None

\* The alias record learn_cuisine writes for (food_name, cuisine, confidence)
LearnedAlias(food_name, cuisine, confidence) ==
    LET normalized_name == norm_text(food_name)
        alias_data == IF Has(learned_aliases, normalized_name)
                      THEN learned_aliases[normalized_name]
                      ELSE [last_cuisine |-> cuisine, rolling_confidence |-> 0,
                            sample_count |-> 0]
        new_confidence == Blend(confidence, alias_data.rolling_confidence)
    IN  [last_cuisine |-> cuisine,
         rolling_confidence |-> new_confidence,
         sample_count |-> alias_data.sample_count + 1,
         last_updated |-> now]

RECURSIVE SumSamples(_, _)
SumSamples(aliases, names) ==
    IF names = {} THEN 0
    ELSE LET n == CHOOSE x \in names : TRUE
         IN  aliases[n].sample_count + SumSamples(aliases, names \ {n})

TotalSamples == SumSamples(learned_aliases, DOMAIN learned_aliases)

\* confidence < threshold: "Don't learn low-confidence mappings"
\* Variant: no observation is too weak to be learned
TooLowToLearn_Never(confidence) == FALSE

TooLowToLearn(confidence) == confidence < alias_confidence_threshold

LearnCuisine(food_name, cuisine, confidence) ==
    /\ ~TooLowToLearn(confidence) => TotalSamples < MaxSamples
    /\ IF TooLowToLearn(confidence)
       THEN UNCHANGED storeVars
       ELSE /\ learned_aliases' = Put(learned_aliases, norm_text(food_name),
                                      LearnedAlias(food_name, cuisine, confidence))
            /\ UNCHANGED <<llm_cache, event_dedup>>
            /\ store_file' = [Data EXCEPT !.learned_aliases = learned_aliases']
    /\ last' = [op |-> "learn_cuisine", food_name |-> food_name, cuisine |-> cuisine,
                confidence |-> confidence,
                prev_cuisine |-> IF Has(learned_aliases, norm_text(food_name))
                                 THEN learned_aliases[norm_text(food_name)].last_cuisine
                                 ELSE None,
                learned_before |-> get_learned_cuisine(food_name)]
    /\ UNCHANGED <<now, other_data, parserVars>>

GetLearnedCuisine(food_name) ==
    /\ last' = [op |-> "get_learned_cuisine", food_name |-> food_name,
                result |-> get_learned_cuisine(food_name)]
    /\ UNCHANGED <<storeVars, now, other_data, parserVars>>

----------------------------------------------------------------------------
(* utils.event_dedupe_key *)

\* "|".join(parts)
RECURSIVE Join(_)
Join(parts) ==
    IF Len(parts) = 0 THEN <<>>
    ELSE IF Len(parts) = 1 THEN parts[1]
    ELSE parts[1] \o <<"|">> \o Join(Tail(parts))

\* hashlib.md5(base).hexdigest(): 32 hexadecimal digits, taken to be free of
\* collisions.  The digest is an opaque value; none of its characters is "|".
Md5Hex(base) == [md5 |-> base]

\* str(date_start or "")
StrOrEmpty(v) == IF Truthy(v) THEN v ELSE <<>>

\* Variant: the title enters the key as written
event_dedupe_key_RawTitle(title, date_start, time_start, location) ==
    Md5Hex(Join(<<IF IsStr(title) THEN title ELSE <<>>, StrOrEmpty(date_start),
                  norm_text(time_start), norm_text(location)>>))

event_dedupe_key(title, date_start, time_start, location) ==
    Md5Hex(Join(<<norm_text(title), StrOrEmpty(date_start),
                  norm_text(time_start), norm_text(location)>>))

PrimaryKey(event_data) ==
    event_dedupe_key(event_data.title, event_data.date_start,
                     event_data.time_start, event_data.location)

----------------------------------------------------------------------------
(* difflib.SequenceMatcher(None, a, b).ratio(), for strings below the       *)
(* 200 characters from which the autojunk heuristic applies                 *)

\* find_longest_match: the longest block a[i..i+k) = b[j..j+k) within the
\* windows, the one starting earliest in a, then earliest in b
LongestMatch(a, b, alo, ahi, blo, bhi) ==
    LET cands == {c \in (alo..(ahi - 1)) \X (blo..(bhi - 1)) \X (1..(ahi - alo)) :
                    /\ c[1] + c[3] <= ahi
                    /\ c[2] + c[3] <= bhi
                    /\ \A d \in 0..(c[3] - 1) : a[c[1] + d] = b[c[2] + d]}
        Better(c, o) == \/ c[3] > o[3]
                        \/ c[3] = o[3] /\ c[1] < o[1]
                        \/ c[3] = o[3] /\ c[1] = o[1] /\ c[2] <= o[2]
    IN  IF cands = {} THEN <<alo, blo, 0>>
        ELSE CHOOSE c \in cands : \A o \in cands : Better(c, o)

\* get_matching_blocks: total size of the blocks found left and right of
\* the longest one, recursively
RECURSIVE MatchSize(_, _, _, _, _, _)
MatchSize(a, b, alo, ahi, blo, bhi) ==
    IF alo >= ahi \/ blo >= bhi THEN 0
    ELSE LET m == LongestMatch(a, b, alo, ahi, blo, bhi)
         IN  IF m[3] = 0 THEN 0
             ELSE m[3] + MatchSize(a, b, alo, m[1], blo, m[2])
                       + MatchSize(a, b, m[1] + m[3], ahi, m[2] + m[3], bhi)

\* ratio() >= num/den, where ratio() = 2.0 * matches / (len(a) + len(b)),
\* and 1.0 when both are empty
RatioAtLeast(a, b, num, den) ==
    LET total == Len(a) + Len(b)
        matches == MatchSize(a, b, 1, Len(a) + 1, 1, Len(b) + 1)
    IN  IF total = 0 THEN TRUE
        ELSE 2 * matches * den >= num * total

----------------------------------------------------------------------------
(* datetime.strptime(s, "%Y-%m-%d") *)

ValueError == -1

Digits == <<"0", "1", "2", "3", "4", "5", "6", "7", "8", "9">>

IsDigit(c) == \E i \in 1..10 : Digits[i] = c

DigitVal(c) == (CHOOSE i \in 1..10 : Digits[i] = c) - 1

RECURSIVE IntOf(_)
IntOf(s) == IF s = <<>> THEN 0 ELSE 10 * IntOf(SubSeq(s, 1, Len(s) - 1)) + DigitVal(s[Len(s)])

\* s.split(sep) for a one-character separator
RECURSIVE Split(_, _)
Split(s, sep) ==
    IF \A i \in 1..Len(s) : s[i] # sep THEN <<s>>
    ELSE LET p == CHOOSE i \in 1..Len(s) : s[i] = sep /\ \A j \in 1..(i - 1) : s[j] # sep
         IN  <<SubSeq(s, 1, p - 1)>> \o Split(SubSeq(s, p + 1, Len(s)), sep)

IsLeap(y) == (y % 4 = 0 /\ y % 100 # 0) \/ y % 400 = 0

DaysInMonth(y, m) ==
    IF m = 2 THEN (IF IsLeap(y) THEN 29 ELSE 28)
    ELSE IF m \in {4, 6, 9, 11} THEN 30 ELSE 31

RECURSIVE DaysBeforeMonth(_, _)
DaysBeforeMonth(y, m) == IF m = 1 THEN 0 ELSE DaysBeforeMonth(y, m - 1) + DaysInMonth(y, m - 1)

\* date.toordinal()
Ordinal(y, m, d) ==
    LET p == y - 1
    IN  p * 365 + (p \div 4) - (p \div 100) + (p \div 400) + DaysBeforeMonth(y, m) + d

\* The day number of the parsed date, or ValueError.  %Y takes four digits,
\* %m and %d one or two.
Strptime(s) ==
    LET parts == Split(s, "-")
        AllDigits(t) == \A i \in 1..Len(t) : IsDigit(t[i])
    IN  IF Len(parts) # 3 THEN ValueError
        ELSE IF ~(Len(parts[1]) = 4 /\ Len(parts[2]) \in {1, 2} /\ Len(parts[3]) \in {1, 2})
             THEN ValueError
        ELSE IF ~(AllDigits(parts[1]) /\ AllDigits(parts[2]) /\ AllDigits(parts[3]))
             THEN ValueError
        ELSE LET y == IntOf(parts[1])
                 m == IntOf(parts[2])
                 d == IntOf(parts[3])
             IN  IF y >= 1 /\ m \in 1..12 /\ d >= 1 /\ d <= DaysInMonth(y, m)
                 THEN Ordinal(y, m, d)
                 ELSE ValueError

----------------------------------------------------------------------------
(* EventStore.is_duplicate_event / _is_similar_event / register_event *)

DedupKeys == {event_dedup[i].key : i \in 1..Len(event_dedup)}

\* self.data["event_dedup"][key]
DedupGet(dedup, key) == dedup[CHOOSE i \in 1..Len(dedup) : dedup[i].key = key].id

\* Variant: an existing key keeps the id it has
DedupSet_KeepFirst(dedup, key, event_id) ==
    IF \E i \in 1..Len(dedup) : dedup[i].key = key
    THEN dedup
    ELSE Append(dedup, [key |-> key, id |-> event_id])

\* self.data["event_dedup"][key] = event_id: an existing key keeps its place
DedupSet(dedup, key, event_id) ==
    IF \E i \in 1..Len(dedup) : dedup[i].key = key
    THEN [i \in 1..Len(dedup) |->
            IF dedup[i].key = key THEN [key |-> key, id |-> event_id] ELSE dedup[i]]
    ELSE Append(dedup, [key |-> key, id |-> event_id])

\* stored_key.split("|"): a stored key is the hex digest written by
\* register_event, which holds no "|"
SplitKey(stored_key) == <<stored_key>>

Abs(n) == IF n < 0 THEN -n ELSE n

_is_similar_event(event_data, stored_key) ==
    LET stored_parts == SplitKey(stored_key)
    IN  IF Len(stored_parts) < 4 THEN FALSE
        ELSE
        LET stored_title == stored_parts[1]
            stored_date == stored_parts[2]
            stored_location == stored_parts[4]
            event_location == norm_text(event_data.location)
        IN  IF ~RatioAtLeast(norm_text(event_data.title), stored_title, 9, 10) THEN FALSE
            \* strptime(None, ...) raises TypeError, caught by the outer handler
            ELSE IF ~IsStr(event_data.date_start) THEN FALSE
            ELSE IF Strptime(event_data.date_start) = ValueError THEN FALSE
            ELSE IF Strptime(stored_date) = ValueError THEN FALSE
            ELSE IF Abs(Strptime(event_data.date_start) - Strptime(stored_date)) > 1 THEN FALSE
            ELSE IF /\ event_location # <<>>
                    /\ stored_location # <<>>
                    /\ ~RatioAtLeast(event_location, stored_location, 8, 10) THEN FALSE
            ELSE TRUE

\* Variant: no event is ever reported as a duplicate
DuplicateIn_Never(dedup, event_data) == None

\* is_duplicate_event over the index given
DuplicateIn(dedup, event_data) ==
    LET primary_key == PrimaryKey(event_data)
        similar == {i \in 1..Len(dedup) : _is_similar_event(event_data, dedup[i].key)}
    IN  IF \E i \in 1..Len(dedup) : dedup[i].key = primary_key
        THEN DedupGet(dedup, primary_key)
        ELSE IF similar # {}
             THEN dedup[CHOOSE i \in similar : \A j \in similar : i <= j].id
        ELSE None

is_duplicate_event(event_data) == DuplicateIn(event_dedup, event_data)

RegisterEvent(event_id, event_data) ==
    /\ PrimaryKey(event_data) \notin DedupKeys => Len(event_dedup) < MaxDedup
    /\ event_dedup' = DedupSet(event_dedup, PrimaryKey(event_data), event_id)
    /\ UNCHANGED <<learned_aliases, llm_cache>>
    /\ store_file' = [Data EXCEPT !.event_dedup = event_dedup']
    /\ last' = [op |-> "register_event", event_id |-> event_id, event_data |-> event_data,
                replaced |-> IF PrimaryKey(event_data) \in DedupKeys
                             THEN DedupGet(event_dedup, PrimaryKey(event_data))
                             ELSE None]
    /\ UNCHANGED <<now, other_data, parserVars>>

IsDuplicateEvent(event_data) ==
    /\ last' = [op |-> "is_duplicate_event", event_data |-> event_data,
                result |-> is_duplicate_event(event_data)]
    /\ UNCHANGED <<storeVars, now, other_data, parserVars>>

----------------------------------------------------------------------------
(* EventStore: the LLM response cache *)

CacheExpiryHours == 24

\* hashlib.sha256(email_body).hexdigest()[:16], taken to be free of collisions
Sha256Hex16(email_body) == [sha256 |-> email_body]

\* f"{message_id}_{content_hash}": the hash has a fixed width, so the key
\* determines both parts
generate_cache_key(message_id, email_body) ==
    [message_id |-> message_id, content_hash |-> Sha256Hex16(email_body)]

\* Variant: an entry expires as soon as it is 24 hours old
Expired_AtLimit(cache_entry) == now - cache_entry.timestamp >= CacheExpiryHours

\* datetime.now() - cached_time > timedelta(hours=24)
Expired(cache_entry) == now - cache_entry.timestamp > CacheExpiryHours

\* The value get_cached_response returns
get_cached_response(cache_key) ==
    IF ~Has(llm_cache, cache_key) THEN None
    ELSE IF Expired(llm_cache[cache_key]) THEN None
    ELSE llm_cache[cache_key].response

\* The cache get_cached_response leaves: an expired entry is deleted
CacheAfterGet(cache_key) ==
    IF Has(llm_cache, cache_key) /\ Expired(llm_cache[cache_key])
    THEN Del(llm_cache, cache_key)
    ELSE llm_cache

\* The cache cache_response leaves
CacheAfterPut(cache, cache_key, response) ==
    Put(cache, cache_key, [response |-> response, timestamp |-> now])

GetCachedResponse(cache_key) ==
    /\ llm_cache' = CacheAfterGet(cache_key)
    /\ store_file' = IF llm_cache' # llm_cache
                     THEN [Data EXCEPT !.llm_cache = llm_cache']
                     ELSE store_file
    /\ last' = [op |-> "get_cached_response", cache_key |-> cache_key,
                result |-> get_cached_response(cache_key),
                removed |-> llm_cache' # llm_cache]
    /\ UNCHANGED <<learned_aliases, event_dedup, now, other_data, parserVars>>

CacheResponse(cache_key, response) ==
    /\ llm_cache' = CacheAfterPut(llm_cache, cache_key, response)
    /\ store_file' = [Data EXCEPT !.llm_cache = llm_cache']
    /\ last' = [op |-> "cache_response", cache_key |-> cache_key, response |-> response]
    /\ UNCHANGED <<learned_aliases, event_dedup, now, other_data, parserVars>>

----------------------------------------------------------------------------
(* JSON values an oracle answer decodes to (json.loads) *)

\* A value is tagged with its type; a dict is a function from its keys, a
\* list is a sequence
Dict(d) == <<"dict", d>>
List(l) == <<"list", l>>

IsDict(j) == j # None /\ j[1] = "dict"

\* The dict or list inside
Items(j) == j[2]

\* bool(j): None, an empty dict and an empty list are falsy
JsonTruthy(j) == j # None /\ DOMAIN Items(j) # {}

\* d.get(k)
Get(d, k) == IF k \in DOMAIN d THEN d[k] ELSE None

----------------------------------------------------------------------------
(* LLMParser._is_event_like.  Keyword, phrase and pattern searches over the *)
(* body and subject are inputs: an email carries, next to its texts, the    *)
(* length of its normalized body and which searches succeed on it.          *)

MinBodyLength == 100
FooterBodyLength == 200

\* Variant: the mailing list footer check comes before the subject check
_is_event_like_FooterFirst(email) ==
    IF email.body_len = 0 THEN FALSE
    ELSE IF email.body_len < MinBodyLength THEN FALSE
    ELSE IF email.body_len < FooterBodyLength /\ email.body_has_mailing_list THEN FALSE
    ELSE IF email.subject_has_keyword THEN TRUE
    ELSE email.body_has_keyword \/ (email.body_has_time /\ email.body_has_location)

_is_event_like(email) ==
    IF email.body_len = 0 THEN FALSE
    ELSE IF email.body_len < MinBodyLength THEN FALSE
    ELSE IF email.subject_has_keyword THEN TRUE
    ELSE IF email.body_len < FooterBodyLength /\ email.body_has_mailing_list THEN FALSE
    ELSE email.body_has_keyword \/ (email.body_has_time /\ email.body_has_location)

----------------------------------------------------------------------------
(* LLMParser._extract_mailing_list_from_subject: re.search(r"\[([^\]]+)\]") *)

\* The leftmost "[", then one or more characters other than "]", then "]"
_extract_mailing_list_from_subject(subject) ==
    LET Closes(i, j) == /\ subject[i] = "["
                        /\ j > i + 1
                        /\ subject[j] = "]"
                        /\ \A k \in (i + 1)..(j - 1) : subject[k] # "]"
        starts == {i \in 1..Len(subject) : \E j \in 1..Len(subject) : Closes(i, j)}
    IN  IF starts = {} THEN None
        ELSE LET i == CHOOSE x \in starts : \A y \in starts : x <= y
                 j == CHOOSE y \in 1..Len(subject) : Closes(i, y)
             IN  SubSeq(subject, i + 1, j - 1)

----------------------------------------------------------------------------
(* schema.ParsedEvent and LLMParser._process_llm_response *)

StrNone == <<"N", "o", "n", "e">>
StrNull == <<"n", "u", "l", "l">>

\* _clean_none_values on a dict of scalar values (a new dict)
CleanScalars(d) ==
    [k \in DOMAIN d |-> IF d[k] = StrNone \/ d[k] = StrNull THEN None ELSE d[k]]

\* _clean_none_values (a new dict): a value "None" or "null" becomes None,
\* and the dicts of a list value, here the food list, are cleaned likewise
_clean_none_values(d) ==
    [k \in DOMAIN d |->
        IF d[k] = StrNone \/ d[k] = StrNull THEN None
        ELSE IF k = "food" THEN [i \in DOMAIN d[k] |-> CleanScalars(d[k][i])]
        ELSE d[k]]

\* re.fullmatch(r"\d{4}-\d{2}-\d{2}", v)
MatchesDate(v) ==
    /\ Len(v) = 10
    /\ \A i \in {1, 2, 3, 4, 6, 7, 9, 10} : IsDigit(v[i])
    /\ v[5] = "-" /\ v[8] = "-"

\* re.fullmatch(r"\d{2}:\d{2}", v)
MatchesTime(v) ==
    /\ Len(v) = 5
    /\ \A i \in {1, 2, 4, 5} : IsDigit(v[i])
    /\ v[3] = ":"

\* A FoodItem is an instance already built, or a dict FoodItem(**item)
\* accepts: name is required and a str
ValidFood(d) ==
    "food" \in DOMAIN d =>
        \A i \in DOMAIN d["food"] :
            "model" \in DOMAIN d["food"][i] \/ Get(d["food"][i], "name") # None

\* Variant: the date is not validated
ValidEvent_AnyDate(d) ==
    /\ Get(d, "title") # None
    /\ ValidFood(d)
    /\ Get(d, "time_start") # None => MatchesTime(d["time_start"])
    /\ Get(d, "time_end") # None => MatchesTime(d["time_end"])

\* ParsedEvent(**d) passes validation: title is required and a str; a
\* date or time that is given must match its grammar
ValidEvent(d) ==
    /\ Get(d, "title") # None
    /\ ValidFood(d)
    /\ Get(d, "date_start") # None => MatchesDate(d["date_start"])
    /\ Get(d, "time_start") # None => MatchesTime(d["time_start"])
    /\ Get(d, "time_end") # None => MatchesTime(d["time_end"])

\* config CATEGORIES and CUISINES: the members the inputs use
Categories == {<<"workshop">>, <<"lecture">>}
CuisineVocabulary == {<<"Italian">>, <<"Japanese">>}

\* ParsedEvent.validate_category: a category outside the list becomes None
validate_category(v) == IF v = None \/ v \in Categories THEN v ELSE None

\* Variant: a cuisine outside the list is kept
validate_cuisine_Keep(v) == v

\* FoodItem.validate_cuisine: a cuisine outside the list becomes None
validate_cuisine(v) == IF v = None \/ v \in CuisineVocabulary THEN v ELSE None

\* The FoodItem in the food list of a ParsedEvent: an instance is taken as
\* it is, a dict is validated into one
FoodItem(item) ==
    IF "model" \in DOMAIN item THEN item
    ELSE [model |-> "FoodItem", name |-> item.name,
          cuisine |-> validate_cuisine(Get(item, "cuisine"))]

\* The fields of the ParsedEvent built from d that the pipeline reads
ParsedEvent(d) ==
    <<"ParsedEvent",
    [title |-> Get(d, "title"),
     date_start |-> Get(d, "date_start"),
     time_start |-> Get(d, "time_start"),
     time_end |-> Get(d, "time_end"),
     category |-> validate_category(Get(d, "category")),
     food |-> IF "food" \in DOMAIN d
              THEN [i \in DOMAIN d["food"] |-> FoodItem(d["food"][i])] ELSE <<>>,
     location |-> Get(d, "location"),
     mailing_list |-> Get(d, "mailing_list"),
     source_message_id |-> Get(d, "source_message_id"),
     source_subject |-> Get(d, "source_subject")]>>

\* parsed_data after the item assignments of _process_llm_response, which
\* write into the dict they are given.  On a value that is no dict the first
\* assignment raises TypeError and the value is left as it is.
Stamped(parsed_data, message_id, subject) ==
    IF ~IsDict(parsed_data) THEN parsed_data
    ELSE LET d1 == Put(Put(Items(parsed_data), "source_message_id", message_id),
                       "source_subject", subject)
             mailing_list == _extract_mailing_list_from_subject(subject)
         IN  Dict(IF Truthy(mailing_list) THEN Put(d1, "mailing_list", mailing_list) ELSE d1)

\* The event _process_llm_response returns, or None
_process_llm_response(parsed_data, message_id, subject) ==
    IF ~IsDict(parsed_data) THEN None
    ELSE LET cleaned == _clean_none_values(Items(Stamped(parsed_data, message_id, subject)))
         IN  IF ValidEvent(cleaned) THEN ParsedEvent(cleaned) ELSE None

----------------------------------------------------------------------------
(* LLMParser.parse_email *)

\* What client.chat.completions.create does: it raises, or it returns a
\* response whose content is missing, the DROP sentinel (bare or quoted),
\* text that is no JSON, or JSON text
Raises == [kind |-> "raises"]
NoContent == [kind |-> "no_content"]
Drop == [kind |-> "DROP"]
QuotedDrop == [kind |-> "\"DROP\""]
NotJson == [kind |-> "not_json"]
Json(payload) == [kind |-> "json", payload |-> payload]

\* self.llm_calls_made >= self.max_calls
\* Variant: the budget check lets one more call through
BudgetExhausted_OffByOne == llm_calls_made > max_calls

BudgetExhausted == llm_calls_made >= max_calls

\* The run of parse_email(email.body, email.message_id, email.subject) from
\* the current state, the oracle answering `answer` if it is asked:
\*   outcome   what ends the call: the budget check, the gate, a cache hit,
\*             the oracle raising, its content missing, DROP, text that is
\*             no JSON, or a decoded answer
\*   result    the ParsedEvent returned, or None
\*   invoked   whether chat.completions.create was called
\*   calls     llm_calls_made afterwards
\*   cache     self.data["llm_cache"] afterwards
\*   file      the backing file afterwards
ParseEmailRun(email, answer) ==
    LET cache_key == generate_cache_key(email.message_id, email.body)
        cached_response == get_cached_response(cache_key)
        looked_up == CacheAfterGet(cache_key)
        file_looked_up == IF looked_up # llm_cache
                          THEN [Data EXCEPT !.llm_cache = looked_up]
                          ELSE store_file
        base == [outcome |-> "budget", result |-> None, invoked |-> FALSE,
                 calls |-> llm_calls_made, cache |-> llm_cache, file |-> store_file]
    IN  IF BudgetExhausted THEN base
        ELSE IF ~_is_event_like(email) THEN [base EXCEPT !.outcome = "gated"]
        ELSE IF JsonTruthy(cached_response)
        THEN [base EXCEPT
                !.outcome = "cache_hit",
                !.result = _process_llm_response(cached_response, email.message_id,
                                                 email.subject),
                \* the dict served is the one the cache holds
                !.cache = [looked_up EXCEPT ![cache_key].response =
                              Stamped(cached_response, email.message_id, email.subject)],
                !.file = file_looked_up]
        ELSE IF answer = Raises
        THEN [base EXCEPT !.outcome = "oracle_raised", !.invoked = TRUE,
                          !.cache = looked_up, !.file = file_looked_up]
        ELSE
        LET counted == [base EXCEPT !.invoked = TRUE, !.calls = llm_calls_made + 1,
                                    !.cache = looked_up, !.file = file_looked_up]
        IN  IF answer = NoContent THEN [counted EXCEPT !.outcome = "no_content"]
            ELSE IF answer = Drop \/ answer = QuotedDrop
            THEN [counted EXCEPT !.outcome = "dropped"]
            ELSE IF answer = NotJson THEN [counted EXCEPT !.outcome = "unparsable"]
            ELSE
            LET parsed_data == answer.payload
                stored == CacheAfterPut(looked_up, cache_key, parsed_data)
            IN  [counted EXCEPT
                    !.outcome = "parsed",
                    !.result = _process_llm_response(parsed_data, email.message_id,
                                                     email.subject),
                    \* saved by cache_response, then written into by
                    \* _process_llm_response
                    !.file = [Data EXCEPT !.llm_cache = stored],
                    !.cache = [stored EXCEPT ![cache_key].response =
                                  Stamped(parsed_data, email.message_id, email.subject)]]

\* Variant: an invocation that raises is counted against the budget
ParseEmailStep_CountsRaise(email, answer) ==
    LET run == ParseEmailRun(email, answer)
    IN  /\ llm_calls_made' = IF run.outcome = "oracle_raised"
                             THEN run.calls + 1 ELSE run.calls
        /\ llm_cache' = run.cache
        /\ store_file' = run.file
        /\ last' = [op |-> "parse_email", email |-> email,
                    outcome |-> run.outcome, result |-> run.result,
                    invoked |-> run.invoked, calls_before |-> llm_calls_made]
        /\ UNCHANGED <<learned_aliases, event_dedup, now, other_data, max_calls>>

\* The state change of one parse_email call and its record in `last`
ParseEmailStep(email, answer) ==
    LET run == ParseEmailRun(email, answer)
    IN  /\ llm_calls_made' = run.calls
        /\ llm_cache' = run.cache
        /\ store_file' = run.file
        /\ last' = [op |-> "parse_email", email |-> email,
                    outcome |-> run.outcome, result |-> run.result,
                    invoked |-> run.invoked, calls_before |-> llm_calls_made]
        /\ UNCHANGED <<learned_aliases, event_dedup, now, other_data, max_calls>>

----------------------------------------------------------------------------
(* LLMParser.parse_emails_batch, one loop iteration per step, the emails of *)
(* the list chosen as the loop reaches them                                 *)

Idle == [running |-> FALSE, n |-> 0, idx |-> 0, parsed_events |-> <<>>]

\* oracle_log outside a run
NoRun == [invoked |-> 0, returned |-> 0]

BatchStart(n) ==
    /\ ~batch.running
    /\ llm_calls_made' = 0
    /\ batch' = [running |-> TRUE, n |-> n, idx |-> 0, parsed_events |-> <<>>]
    /\ oracle_log' = NoRun
    /\ last' = [op |-> "parse_emails_batch", n |-> n]
    /\ UNCHANGED <<storeVars, now, other_data, max_calls>>

\* Variant: an email that yields no event ends the run
BatchParse_StopsOnFailure(email, answer) ==
    /\ batch.running
    /\ batch.idx < batch.n
    /\ ~BudgetExhausted
    /\ ParseEmailStep(email, answer)
    /\ LET run == ParseEmailRun(email, answer)
       IN  /\ batch' = IF run.result = None THEN Idle
                       ELSE [batch EXCEPT !.idx = @ + 1,
                                          !.parsed_events = Append(@, run.result)]
           /\ oracle_log' = [invoked |-> oracle_log.invoked
                                           + (IF run.invoked THEN 1 ELSE 0),
                             returned |-> oracle_log.returned
                                           + (run.calls - llm_calls_made)]

\* The loop body for the next email
BatchParse(email, answer) ==
    /\ batch.running
    /\ batch.idx < batch.n
    /\ ~BudgetExhausted
    /\ ParseEmailStep(email, answer)
    /\ LET run == ParseEmailRun(email, answer)
       IN  /\ batch' = [batch EXCEPT
                          !.idx = @ + 1,
                          !.parsed_events = IF run.result # None
                                            THEN Append(@, run.result) ELSE @]
           /\ oracle_log' = [invoked |-> oracle_log.invoked
                                           + (IF run.invoked THEN 1 ELSE 0),
                             returned |-> oracle_log.returned
                                           + (run.calls - llm_calls_made)]

\* The break taken when the budget is used up before the list ends
BatchBreak ==
    /\ batch.running
    /\ batch.idx < batch.n
    /\ BudgetExhausted
    /\ batch' = Idle
    /\ oracle_log' = NoRun
    /\ last' = [op |-> "batch_break", returned |-> batch.parsed_events]
    /\ UNCHANGED <<storeVars, now, other_data, llm_calls_made, max_calls>>

\* The return after the last email
BatchReturn ==
    /\ batch.running
    /\ batch.idx = batch.n
    /\ batch' = Idle
    /\ oracle_log' = NoRun
    /\ last' = [op |-> "batch_return", returned |-> batch.parsed_events]
    /\ UNCHANGED <<storeVars, now, other_data, llm_calls_made, max_calls>>

\* parse_email called on its own (server.py), between batch runs
ParseEmail(email, answer) ==
    /\ ~batch.running
    /\ ParseEmailStep(email, answer)
    /\ UNCHANGED <<batch, oracle_log>>

ResetCallCounter ==
    /\ ~batch.running
    /\ llm_calls_made # 0
    /\ llm_calls_made' = 0
    /\ last' = [op |-> "reset_call_counter"]
    /\ UNCHANGED <<storeVars, now, other_data, max_calls, batch, oracle_log>>

\* _is_event_like called on its own
IsEventLike(email) ==
    /\ last' = [op |-> "_is_event_like", email |-> email,
                result |-> _is_event_like(email)]
    /\ UNCHANGED <<storeVars, now, other_data, parserVars>>

\* Time passes
Tick ==
    /\ now < MaxTicks * TickHours
    /\ now' = now + TickHours
    /\ last' = [op |-> "tick"]
    /\ UNCHANGED <<storeVars, other_data, parserVars>>

----------------------------------------------------------------------------
(* PostProcessor.process_event.  event_data is a dict: a function from the  *)
(* keys it holds.  A food item is a dict with name and cuisine and, when    *)
(* the oracle scored it, confidence.                                        *)

min_confidence_category_tenths == 6
min_confidence_cuisine_tenths == 6

min_confidence == [category |-> Conf(min_confidence_category_tenths),
                   cuisine |-> Conf(min_confidence_cuisine_tenths)]

\* {"", "TBD", "N/A", "-", "null", "NULL"}
Placeholders == {<<>>, <<"T", "B", "D">>, <<"N", "/", "A">>, <<"-">>,
                 StrNull, <<"N", "U", "L", "L">>}

\* The en dash and the em dash, each one character
FancyDashes == {"<en dash>", "<em dash>"}

\* re.sub(r"[--]", "-", text), then whitespace collapsed and stripped
CleanText(text) ==
    Strip(CollapseWs([i \in 1..Len(text) |->
                         IF text[i] \in FancyDashes THEN "-" ELSE text[i]]))

_normalize_parsed_data(parsed_data) ==
    LET d1 == [k \in DOMAIN parsed_data |->
                 IF k \in {"organizer", "location", "description"}
                    /\ parsed_data[k] \in Placeholders
                 THEN None ELSE parsed_data[k]]
    IN  [k \in DOMAIN d1 |->
            IF k \in {"title", "description", "location"} /\ Truthy(d1[k])
            THEN CleanText(d1[k]) ELSE d1[k]]

\* confidence.get(key, 1.0) of a dict that may lack "confidence"
ConfidenceOf(d, key) ==
    IF "confidence" \in DOMAIN d /\ key \in DOMAIN d["confidence"]
    THEN d["confidence"][key] ELSE Conf(10)

\* Variant: a confidence equal to the threshold counts as below it
BelowThreshold_Inclusive(confidence, key) == confidence <= min_confidence[key]

\* confidence < self.min_confidence[key]
BelowThreshold(confidence, key) == confidence < min_confidence[key]

_apply_confidence_filtering(data) ==
    LET d1 == IF "category" \in DOMAIN data /\ Truthy(data["category"])
                 /\ BelowThreshold(ConfidenceOf(data, "category"), "category")
              THEN Put(data, "category", None) ELSE data
    IN  IF "food" \notin DOMAIN d1 THEN d1
        ELSE Put(d1, "food",
                 [i \in 1..Len(d1["food"]) |->
                     IF BelowThreshold(ConfidenceOf(d1["food"][i], "cuisine"), "cuisine")
                     THEN Put(d1["food"][i], "cuisine", None)
                     ELSE d1["food"][i]])

\* store.get_learned_cuisine(name) on the aliases as they stand inside the
\* loop of _process_food_items
LearnedIn(aliases, name) ==
    IF ~Has(aliases, norm_text(name)) THEN None
    ELSE IF aliases[norm_text(name)].rolling_confidence >= alias_confidence_threshold
    THEN <<aliases[norm_text(name)].last_cuisine,
           aliases[norm_text(name)].rolling_confidence>>
    ELSE None

\* The aliases store.learn_cuisine(name, cuisine, confidence) leaves
AliasesAfterLearn(aliases, name, cuisine, confidence) ==
    IF TooLowToLearn(confidence) THEN aliases
    ELSE LET alias_data == IF Has(aliases, norm_text(name))
                           THEN aliases[norm_text(name)]
                           ELSE [last_cuisine |-> cuisine, rolling_confidence |-> 0,
                                 sample_count |-> 0]
         IN  Put(aliases, norm_text(name),
                 [last_cuisine |-> cuisine,
                  rolling_confidence |-> Blend(confidence, alias_data.rolling_confidence),
                  sample_count |-> alias_data.sample_count + 1,
                  last_updated |-> now])

\* Variant: a learned cuisine replaces the one the item carries
UseLearned_Always(learned_cuisine, cuisine) == learned_cuisine # None

\* learned_cuisine and not food_item.cuisine
UseLearned(learned_cuisine, cuisine) == learned_cuisine # None /\ ~Truthy(cuisine)

\* Variant: every cuisine an item carries is learned twice
LearnCalls_Twice(name, cuisine, confidence) ==
    IF Truthy(cuisine)
    THEN <<[food_name |-> name, cuisine |-> cuisine, confidence |-> confidence],
           [food_name |-> name, cuisine |-> cuisine, confidence |-> confidence]>>
    ELSE <<>>

\* The learn_cuisine calls the elif branch makes for an item
LearnCalls(name, cuisine, confidence) ==
    IF Truthy(cuisine) /\ confidence >= min_confidence.cuisine
    THEN <<[food_name |-> name, cuisine |-> cuisine, confidence |-> confidence]>>
    ELSE <<>>

\* The aliases after the calls of a sequence, made in order
RECURSIVE AliasesAfterCalls(_, _)
AliasesAfterCalls(aliases, calls) ==
    IF calls = <<>> THEN aliases
    ELSE AliasesAfterCalls(AliasesAfterLearn(aliases, calls[1].food_name,
                                             calls[1].cuisine, calls[1].confidence),
                           Tail(calls))

\* The loop of _process_food_items over `items`, from the aliases given:
\*   food    the FoodItems appended so far
\*   calls   the learn_cuisine calls made so far
\*   looked  per item of the input, what the loop saw: whether the item was
\*           kept, its cuisine after validation, and the learned cuisine
\*           the store returned when it was asked
RECURSIVE FoodLoop(_, _, _)
FoodLoop(items, aliases, acc) ==
    IF items = <<>> THEN acc
    ELSE
    LET item_data == Head(items)
        name == norm_text(Get(item_data, "name"))
        cuisine == validate_cuisine(Get(item_data, "cuisine"))
        learned_cuisine == LearnedIn(aliases, name)
        calls == IF UseLearned(learned_cuisine, cuisine) THEN <<>>
                 ELSE LearnCalls(name, cuisine, ConfidenceOf(item_data, "cuisine"))
        food_item == [model |-> "FoodItem", name |-> name,
                      cuisine |-> IF UseLearned(learned_cuisine, cuisine)
                                  THEN learned_cuisine[1] ELSE cuisine]
    IN  IF name = <<>>
        THEN FoodLoop(Tail(items), aliases,
                      [acc EXCEPT !.looked = Append(@, [kept |-> FALSE])])
        ELSE FoodLoop(Tail(items), AliasesAfterCalls(aliases, calls),
                      [food |-> Append(acc.food, food_item),
                       calls |-> acc.calls \o calls,
                       looked |-> Append(acc.looked,
                                         [kept |-> TRUE, cuisine |-> cuisine,
                                          learned_cuisine |-> learned_cuisine])])

\* The run of process_event(event_data) from the learned aliases given:
\*   result  the ParsedEvent returned, or None
\*   calls, looked  as in FoodLoop
\*   aliases the learned aliases afterwards
ProcessEventFrom(aliases, event_data) ==
    LET filtered_data == _apply_confidence_filtering(_normalize_parsed_data(event_data))
        loop == IF "food" \in DOMAIN filtered_data
                THEN FoodLoop(filtered_data["food"], aliases,
                              [food |-> <<>>, calls |-> <<>>, looked |-> <<>>])
                ELSE [food |-> <<>>, calls |-> <<>>, looked |-> <<>>]
        processed == IF "food" \in DOMAIN filtered_data
                     THEN Put(filtered_data, "food", loop.food) ELSE filtered_data
    IN  [result |-> IF ValidEvent(processed) THEN ParsedEvent(processed) ELSE None,
         calls |-> loop.calls,
         looked |-> loop.looked,
         aliases |-> AliasesAfterCalls(aliases, loop.calls)]

ProcessEventRun(event_data) == ProcessEventFrom(learned_aliases, event_data)

\* The learn_cuisine calls of a sequence that add a sample
Effective(calls) == SelectSeq(calls, LAMBDA c : ~TooLowToLearn(c.confidence))

ProcessEvent(event_data) ==
    \E run \in {ProcessEventRun(event_data)} :
        /\ TotalSamples + Len(Effective(run.calls)) <= MaxSamples
        /\ learned_aliases' = run.aliases
        /\ store_file' = IF Effective(run.calls) # <<>>
                         THEN [Data EXCEPT !.learned_aliases = learned_aliases']
                         ELSE store_file
        /\ last' = [op |-> "process_event", event_data |-> event_data,
                    result |-> run.result, calls |-> run.calls, looked |-> run.looked]
        /\ UNCHANGED <<llm_cache, event_dedup, now, other_data, parserVars>>

----------------------------------------------------------------------------
(* PostProcessor.process_events_batch: the whole call is one step *)

\* str(v) of a text or of None
Str(v) == IF v = None THEN StrNone ELSE v

\* f"{event_data.get('title', '')}_{event_data.get('date_start', '')}_
\* {event_data.get('time_start', '')}"
EventIdOf(event_data) ==
    LET Field(k) == IF k \in DOMAIN event_data THEN Str(event_data[k]) ELSE <<>>
    IN  Field("title") \o <<"_">> \o Field("date_start") \o <<"_">> \o Field("time_start")

\* Variant: a duplicate is not learned from, as if the store were asked
\* before the event is post-processed
Outcome_CheckFirst(event_data, acc, run) ==
    LET event_id == EventIdOf(event_data)
        event == run.result
        entry == [event_id |-> event_id, event |-> event, calls |-> run.calls]
    IN  IF event = None
        THEN [acc EXCEPT !.aliases = run.aliases,
                         !.log = Append(@, [step |-> "rejected"] @@ entry)]
        ELSE IF Truthy(DuplicateIn(acc.dedup, event[2]))
        THEN [acc EXCEPT !.log = Append(@, [step |-> "duplicate"] @@ entry)]
        ELSE [aliases |-> run.aliases,
              dedup |-> DedupSet(acc.dedup, PrimaryKey(event[2]), event_id),
              seen_events |-> acc.seen_events \cup {event_id},
              processed_events |-> Append(acc.processed_events, event),
              log |-> Append(acc.log, [step |-> "accepted"] @@ entry)]

\* What follows `event = self.process_event(event_data)`, run being that
\* call: the event is rejected, reported by the store as a duplicate, or
\* registered and appended.  The aliases process_event learned stay
\* learned in each case.
Outcome(event_data, acc, run) ==
    LET event_id == EventIdOf(event_data)
        event == run.result
        entry == [event_id |-> event_id, event |-> event, calls |-> run.calls]
    IN  IF event = None
        THEN [acc EXCEPT !.aliases = run.aliases,
                         !.log = Append(@, [step |-> "rejected"] @@ entry)]
        ELSE IF Truthy(DuplicateIn(acc.dedup, event[2]))
        THEN [acc EXCEPT !.aliases = run.aliases,
                         !.log = Append(@, [step |-> "duplicate"] @@ entry)]
        ELSE [aliases |-> run.aliases,
              dedup |-> DedupSet(acc.dedup, PrimaryKey(event[2]), event_id),
              seen_events |-> acc.seen_events \cup {event_id},
              processed_events |-> Append(acc.processed_events, event),
              log |-> Append(acc.log, [step |-> "accepted"] @@ entry)]

\* One iteration of the loop, from the learned aliases, the dedup index,
\* seen_events and processed_events in acc; acc.log gets what the
\* iteration did: skipped the event as seen, or post-processed it and then
\* had it rejected, reported as a duplicate, or accepted and registered
Iteration(event_data, acc) ==
    IF EventIdOf(event_data) \in acc.seen_events
    THEN [acc EXCEPT !.log = Append(@, [step |-> "seen",
                                        event_id |-> EventIdOf(event_data)])]
    ELSE CHOOSE out \in {Outcome(event_data, acc, run) :
                            run \in {ProcessEventFrom(acc.aliases, event_data)}} : TRUE

RECURSIVE BatchLoop(_, _)
BatchLoop(events_data, acc) ==
    IF events_data = <<>> THEN acc
    ELSE CHOOSE out \in {BatchLoop(Tail(events_data), next) :
                            next \in {Iteration(Head(events_data), acc)}} : TRUE

\* The learn_cuisine calls of a log
RECURSIVE CallsOf(_)
CallsOf(log) ==
    IF log = <<>> THEN <<>>
    ELSE (IF "calls" \in DOMAIN Head(log) THEN Head(log).calls ELSE <<>>)
         \o CallsOf(Tail(log))

ProcessEventsBatch(events_data) ==
    \E run \in {BatchLoop(events_data,
                          [aliases |-> learned_aliases, dedup |-> event_dedup,
                           seen_events |-> {}, processed_events |-> <<>>,
                           log |-> <<>>])} :
        /\ TotalSamples + Len(Effective(CallsOf(run.log))) <= MaxSamples
        /\ Len(run.dedup) <= MaxDedup
        /\ learned_aliases' = run.aliases
        /\ event_dedup' = run.dedup
        /\ store_file' = IF Effective(CallsOf(run.log)) # <<>> \/ run.dedup # event_dedup
                         THEN [Data EXCEPT !.learned_aliases = learned_aliases',
                                           !.event_dedup = event_dedup']
                         ELSE store_file
        /\ last' = [op |-> "process_events_batch", events_data |-> events_data,
                    returned |-> run.processed_events, log |-> run.log]
        /\ UNCHANGED <<llm_cache, now, other_data, parserVars>>

\* _process_llm_response applied to a decoded answer
ProcessLlmResponse(parsed_data, message_id, subject) ==
    /\ last' = [op |-> "_process_llm_response", parsed_data |-> parsed_data,
                subject |-> subject,
                result |-> _process_llm_response(parsed_data, message_id, subject)]
    /\ UNCHANGED <<storeVars, now, other_data, parserVars>>

----------------------------------------------------------------------------
(* EventStore.cleanup_old_data.  The clock counts hours from midnight of    *)
(* 2025-09-30; a day has 24 of them.                                        *)

HoursPerDay == 24

\* The day the clock starts on
EpochOrdinal == Ordinal(2025, 9, 30)

\* datetime.strptime(date_part, "%Y-%m-%d") on the clock's scale
DateHours(date_part) == (Strptime(date_part) - EpochOrdinal) * HoursPerDay

\* datetime.now() - timedelta(days=days)
CutoffDate(days) == now - days * HoursPerDay

\* A cache entry goes when its timestamp is before the cutoff
OldCacheKeys(days) ==
    {key \in DOMAIN llm_cache : llm_cache[key].timestamp < CutoffDate(days)}

\* A dedup entry goes when key.split("|")[1] does not exist (IndexError),
\* is no date (ValueError), or is a date before the cutoff
OldDedupKey(key, days) ==
    LET parts == SplitKey(key)
    IN  IF Len(parts) < 2 THEN TRUE
        ELSE IF Strptime(parts[2]) = ValueError THEN TRUE
        ELSE DateHours(parts[2]) < CutoffDate(days)

\* event_dedup without its old entries, the others in their order
DedupAfterCleanup(days) ==
    SelectSeq(event_dedup, LAMBDA entry : ~OldDedupKey(entry.key, days))

\* Variant: the aliases are cleaned up with the rest
CleanupOldData_DropsAliases(days) ==
    /\ llm_cache' = [key \in DOMAIN llm_cache \ OldCacheKeys(days) |-> llm_cache[key]]
    /\ event_dedup' = DedupAfterCleanup(days)
    /\ learned_aliases' = EmptyMap
    /\ store_file' = [learned_aliases |-> learned_aliases', llm_cache |-> llm_cache',
                      event_dedup |-> event_dedup']
    /\ last' = [op |-> "cleanup_old_data", days |-> days,
                removed_cache |-> Cardinality(OldCacheKeys(days)),
                removed_dedup |-> Len(event_dedup) - Len(event_dedup')]
    /\ UNCHANGED <<now, other_data, parserVars>>

CleanupOldData(days) ==
    /\ llm_cache' = [key \in DOMAIN llm_cache \ OldCacheKeys(days) |-> llm_cache[key]]
    /\ event_dedup' = DedupAfterCleanup(days)
    /\ store_file' = IF OldCacheKeys(days) # {} \/ Len(event_dedup') # Len(event_dedup)
                     THEN [Data EXCEPT !.llm_cache = llm_cache',
                                       !.event_dedup = event_dedup']
                     ELSE store_file
    /\ last' = [op |-> "cleanup_old_data", days |-> days,
                removed_cache |-> Cardinality(OldCacheKeys(days)),
                removed_dedup |-> Len(event_dedup) - Len(event_dedup')]
    /\ UNCHANGED <<learned_aliases, now, other_data, parserVars>>

----------------------------------------------------------------------------
(* Inputs *)

FoodNames == {<<"p", "a">>, <<" ", "P", "A", " ">>, <<"s", "a">>}

Cuisines == {<<"Italian">>, <<"Japanese">>}

Confidences == {Conf(3), Conf(7), Conf(10)}

\* "2025-09-30" and the day after it
D30 == <<"2", "0", "2", "5", "-", "0", "9", "-", "3", "0">>
D01 == <<"2", "0", "2", "5", "-", "1", "0", "-", "0", "1">>
T14 == <<"1", "4", ":", "0", "0">>

Titles == {<<"A", "b">>, <<"a", "b", " ">>, <<"a", "c">>}

Events == [title : Titles, date_start : {D30, D01}, time_start : {T14},
           location : {None, <<"R", "m">>}]

\* The events that get registered; every event of Events is looked up
RegisteredEvents == {e \in Events : e.location = None \/ e.date_start = D30}

EventIds == {<<"e", "1">>, <<"e", "2">>}

PayloadOk == Dict([title |-> <<"a", "b">>, date_start |-> D30])
PayloadBadDate == Dict([title |-> <<"a", "b">>, date_start |-> <<"9", "/", "3", "0">>])
PayloadEmptyList == List(<<>>)

Payloads == {PayloadOk, PayloadBadDate, PayloadEmptyList}

Answers == {Raises, NoContent, Drop, QuotedDrop, NotJson} \cup {Json(p) : p \in Payloads}

\* event keyword in the subject, footer-like body: passes the gate
Mail1 == [message_id |-> <<"m1">>, body |-> <<"body1">>,
          subject |-> <<"[", "G", "]", " ", "t">>, body_len |-> 150,
          subject_has_keyword |-> TRUE, body_has_keyword |-> FALSE,
          body_has_mailing_list |-> TRUE, body_has_time |-> FALSE,
          body_has_location |-> FALSE]
\* footer-like body and no keyword in the subject: gated out
Mail2 == [message_id |-> <<"m2">>, body |-> <<"body2">>,
          subject |-> <<"h", "i">>, body_len |-> 150,
          subject_has_keyword |-> FALSE, body_has_keyword |-> TRUE,
          body_has_mailing_list |-> TRUE, body_has_time |-> FALSE,
          body_has_location |-> FALSE]
\* the message of Mail1 with another body; time and place: passes the gate
Mail3 == [message_id |-> <<"m1">>, body |-> <<"body3">>,
          subject |-> <<"h", "i">>, body_len |-> 300,
          subject_has_keyword |-> FALSE, body_has_keyword |-> FALSE,
          body_has_mailing_list |-> FALSE, body_has_time |-> TRUE,
          body_has_location |-> TRUE]

Emails == {Mail1, Mail2, Mail3}

\* An email for every combination of what _is_event_like looks at: the
\* length of the normalized body around 100 and 200, and each search
\* succeeding or not
BodyLengths == {0, 99, 100, 199, 200}

GateInputs ==
    [message_id : {<<"m3">>}, body : {<<"body">>}, subject : {<<"s">>},
     body_len : BodyLengths, subject_has_keyword : BOOLEAN,
     body_has_keyword : BOOLEAN, body_has_mailing_list : BOOLEAN,
     body_has_time : BOOLEAN, body_has_location : BOOLEAN]

CacheKeys == {generate_cache_key(e.message_id, e.body) : e \in Emails}

\* Food items as the oracle gives them: scored, not scored, below the
\* cuisine threshold, at it, outside the vocabulary, without a name
FoodItemsIn ==
    {[name |-> <<"p", "a">>, cuisine |-> <<"Italian">>,
      confidence |-> [cuisine |-> Conf(10)]],
     [name |-> <<" ", "P", "A", " ">>, cuisine |-> None],
     [name |-> <<"p", "a">>, cuisine |-> <<"Japanese">>,
      confidence |-> [cuisine |-> Conf(5)]],
     [name |-> <<"p", "a">>, cuisine |-> <<"Italian">>,
      confidence |-> [cuisine |-> Conf(6)]],
     [name |-> <<"p", "a">>, cuisine |-> <<"Japanese">>,
      confidence |-> [cuisine |-> Conf(10)]],
     [name |-> <<"p", "a">>, cuisine |-> <<"Klingon">>,
      confidence |-> [cuisine |-> Conf(10)]],
     [name |-> <<" ">>, cuisine |-> <<"Italian">>,
      confidence |-> [cuisine |-> Conf(10)]],
     [name |-> <<"s", "a">>, cuisine |-> <<"Japanese">>]}

FoodLists ==
    {<<>>} \cup {<<i>> : i \in FoodItemsIn}
           \cup {<<i, j>> : i \in FoodItemsIn, j \in FoodItemsIn}

BadDate == <<"9", "/", "3", "0">>
BadTime == <<"2", "p", "m">>

PostBase == [title |-> <<"a", "b">>, date_start |-> D30]

\* The events process_event is given: the base event with each food list,
\* with a category and its confidence, and with dates, times and texts
\* that need normalizing or do not validate
PostEvents ==
    {Put(PostBase, "food", f) : f \in FoodLists}
    \cup {Put(Put(PostBase, "category", c), "confidence", [category |-> x]) :
            c \in {<<"workshop">>, <<"rave">>}, x \in {Conf(5), Conf(6), Conf(8)}}
    \cup {Put(PostBase, "category", <<"workshop">>),
          Put(Put(Put(PostBase, "date_start", BadDate), "category", <<"workshop">>),
              "confidence", [category |-> Conf(6)])}
    \cup {Put(PostBase, "date_start", d) : d \in {BadDate, StrNull, None}}
    \cup {Put(PostBase, "time_start", t) : t \in {T14, BadTime}}
    \cup {Put(PostBase, "time_end", t) : t \in {T14, BadTime}}
    \cup {[title |-> <<" ", "A", " ", " ", "b">>, date_start |-> D30,
           location |-> <<"T", "B", "D">>]}

\* The events process_events_batch is given, in the order they come in:
\* an event with a food item; the same event with its title in another
\* case and its food item under another cuisine; the same event at another
\* location; an event whose date does not validate; the first event again.
\* A batch is up to MaxEvents of them, in that order.
MaxEvents == 2

BatchItem(cuisine) ==
    [name |-> <<"p", "a">>, cuisine |-> cuisine, confidence |-> [cuisine |-> Conf(10)]]

BatchBase ==
    [title |-> <<"a", "b">>, date_start |-> D30, time_start |-> T14,
     food |-> <<BatchItem(<<"Italian">>)>>]

BatchEvents ==
    <<BatchBase,
      Put(Put(BatchBase, "title", <<"A", "b">>), "food", <<BatchItem(<<"Japanese">>)>>),
      Put(BatchBase, "location", <<"R", "m">>),
      Put(Put(BatchBase, "title", <<"a", "c">>), "date_start", BadDate),
      BatchBase>>

\* The elements of `list` at the positions P, in order
Pick(list, P) ==
    [i \in 1..Cardinality(P) |->
        list[CHOOSE p \in P : Cardinality({q \in P : q <= p}) = i]]

BatchLists ==
    {Pick(BatchEvents, P) : P \in {Q \in SUBSET (1..Len(BatchEvents)) :
                                     Cardinality(Q) <= MaxEvents}}

\* The decoded answers _process_llm_response is given
LlmPayloads ==
    {Dict(Put(PostBase, "date_start", d)) : d \in {D30, BadDate, StrNull, StrNone, None}}
    \cup {Dict(Put(PostBase, "time_start", t)) : t \in {T14, BadTime, StrNull}}
    \cup {Dict(Put(PostBase, "time_end", t)) : t \in {T14, BadTime, StrNone}}
    \cup {Dict(Put(PostBase, "category", c)) :
            c \in {<<"workshop">>, <<"rave">>, StrNone}}
    \cup {Dict(Put(PostBase, "food", <<[name |-> <<"p", "a">>, cuisine |-> c]>>)) :
            c \in {<<"Italian">>, <<"Klingon">>, StrNull}}
    \cup {Dict(Put(PostBase, "mailing_list", <<"L">>))}
    \cup {PayloadEmptyList}

----------------------------------------------------------------------------
(* EventStore.__init__ and _load_data.  What the store file holds when the  *)
(* store is constructed: nothing the process may read (it may write it),    *)
(* text that is no JSON, bytes that are no UTF-8 text, the JSON object {},  *)
(* or the three maps a store saved.                                         *)

Unreadable == [unreadable |-> TRUE]
InvalidJson == [invalid_json |-> TRUE]
InvalidUtf8 == [invalid_utf8 |-> TRUE]
EmptyObject == [json |-> "{}"]

\* A file saved by a store that had learned one alias
SavedFile ==
    [learned_aliases |-> AliasesAfterLearn(EmptyMap, <<"p", "a">>, <<"Italian">>,
                                           Conf(10)),
     llm_cache |-> EmptyMap,
     event_dedup |-> <<>>]

StoreFiles == {NoFile, Unreadable, InvalidJson, InvalidUtf8, EmptyObject, SavedFile}

\* The dict _load_data builds when there is no file or the load failed
EmptyData == [learned_aliases |-> EmptyMap, llm_cache |-> EmptyMap, event_dedup |-> <<>>]

\* _load_data: the data loaded, or the exception that leaves __init__.
\* open raises an IOError on a file that may not be read and json.load a
\* JSONDecodeError on text that is no JSON: both are caught.  Decoding
\* bytes that are no UTF-8 raises UnicodeDecodeError, which is neither.
\* JSON of any shape is returned as it is: for {} that is a dict without
\* the three maps (has_maps is FALSE).
_load_data(file) ==
    IF file = NoFile
    THEN [raised |-> FALSE, has_maps |-> TRUE, data |-> EmptyData]
    ELSE IF file = Unreadable \/ file = InvalidJson
    THEN [raised |-> FALSE, has_maps |-> TRUE, data |-> EmptyData]
    ELSE IF file = InvalidUtf8
    THEN [raised |-> TRUE, error |-> "UnicodeDecodeError"]
    ELSE IF file = EmptyObject
    THEN [raised |-> FALSE, has_maps |-> FALSE, data |-> EmptyData]
    ELSE [raised |-> FALSE, has_maps |-> TRUE, data |-> file]

\* __init__ returned a store
Constructed == ~(last.op = "EventStore" /\ last.raised)

\* self.data holds the three maps.  A store loaded from {} has none: each
\* operation then raises before it writes, so the file still holds {}.
HasMaps == store_file # EmptyObject

\* self.data[key] of a dict without that key
KeyError(op) ==
    /\ last' = [op |-> op, raised |-> TRUE, error |-> "KeyError"]
    /\ UNCHANGED <<storeVars, now, other_data, parserVars>>

\* The operations of a store that was loaded from a file
LoadedLearnCuisine(food_name, cuisine, confidence) ==
    /\ Constructed
    /\ IF HasMaps \/ TooLowToLearn(confidence)
       THEN LearnCuisine(food_name, cuisine, confidence)
       ELSE KeyError("learn_cuisine")

LoadedGetLearnedCuisine(food_name) ==
    /\ Constructed
    /\ IF HasMaps THEN GetLearnedCuisine(food_name) ELSE KeyError("get_learned_cuisine")

LoadedGetCachedResponse(cache_key) ==
    /\ Constructed
    /\ IF HasMaps THEN GetCachedResponse(cache_key) ELSE KeyError("get_cached_response")

LoadedIsDuplicateEvent(event_data) ==
    /\ Constructed
    /\ IF HasMaps THEN IsDuplicateEvent(event_data) ELSE KeyError("is_duplicate_event")

LoadedRegisterEvent(event_id, event_data) ==
    /\ Constructed
    /\ IF HasMaps THEN RegisterEvent(event_id, event_data) ELSE KeyError("register_event")

----------------------------------------------------------------------------
(* A second EventStore over the same file: LLMParser and PostProcessor each *)
(* construct their own when they are given none.  It works on its own       *)
(* self.data, loaded when it was constructed, and _save_data writes that    *)
(* whole dict to the file.                                                  *)

OtherLearnCuisine(food_name, cuisine, confidence) ==
    /\ ~TooLowToLearn(confidence)
    /\ SumSamples(other_data.learned_aliases, DOMAIN other_data.learned_aliases)
          < MaxSamples
    /\ other_data' = [other_data EXCEPT !.learned_aliases =
                         AliasesAfterLearn(@, food_name, cuisine, confidence)]
    /\ store_file' = other_data'
    /\ last' = [op |-> "learn_cuisine", instance |-> 2, food_name |-> food_name,
                cuisine |-> cuisine, confidence |-> confidence]
    /\ UNCHANGED <<learned_aliases, llm_cache, event_dedup, now, parserVars>>

OtherRegisterEvent(event_id, event_data) ==
    /\ Len(other_data.event_dedup) < MaxDedup
    /\ other_data' = [other_data EXCEPT !.event_dedup =
                         DedupSet(@, PrimaryKey(event_data), event_id)]
    /\ store_file' = other_data'
    /\ last' = [op |-> "register_event", instance |-> 2, event_id |-> event_id,
                event_data |-> event_data]
    /\ UNCHANGED <<learned_aliases, llm_cache, event_dedup, now, parserVars>>

----------------------------------------------------------------------------
(* Specifications *)

\* EventStore over a store file that does not exist; LLMParser constructed
\* with the configured budget
InitStore ==
    /\ learned_aliases = EmptyMap
    /\ llm_cache = EmptyMap
    /\ event_dedup = <<>>
    /\ store_file = NoFile
    /\ other_data = EmptyData
    /\ now = 0
    /\ llm_calls_made = 0
    /\ batch = Idle
    /\ oracle_log = NoRun
    /\ last = [op |-> "init"]

Init == InitStore /\ max_calls \in 1..MaxBudget

\* The store used on its own: the parser's budget plays no part
InitApi == InitStore /\ max_calls = MaxBudget

\* The parser working through batches and single emails
Next ==
    \/ \E n \in 0..MaxBatch : BatchStart(n)
    \/ \E email \in Emails, answer \in Answers : BatchParse(email, answer)
    \/ BatchBreak
    \/ BatchReturn
    \/ \E email \in Emails, answer \in Answers : ParseEmail(email, answer)
    \/ ResetCallCounter

Spec == Init /\ [][Next]_vars

\* Single emails parsed and the cache looked up while time passes
NextCache ==
    \/ \E email \in Emails, answer \in Answers : ParseEmail(email, answer)
    \/ \E k \in CacheKeys : GetCachedResponse(k)
    \/ ResetCallCounter
    \/ Tick

SpecCache == Init /\ [][NextCache]_vars

\* The learning store used through its API
NextLearn ==
    \/ \E f \in FoodNames, c \in Cuisines, x \in Confidences : LearnCuisine(f, c, x)
    \/ \E f \in FoodNames : GetLearnedCuisine(f)
    \/ \E k \in {generate_cache_key(Mail1.message_id, Mail1.body)} :
          CacheResponse(k, PayloadOk)
    \/ \E e \in {[title |-> <<"a", "c">>, date_start |-> D30, time_start |-> T14,
                   location |-> None]} : RegisterEvent(<<"e", "1">>, e)

SpecLearn == InitApi /\ [][NextLearn]_vars

\* The dedup index used through its API
NextDedup ==
    \/ \E id \in EventIds, e \in RegisteredEvents : RegisterEvent(id, e)
    \/ \E e \in Events : IsDuplicateEvent(e)

SpecDedup == InitApi /\ [][NextDedup]_vars

\* The store filled, aged and cleaned up
NextCleanup ==
    \/ \E c \in Cuisines : LearnCuisine(<<"p", "a">>, c, Conf(10))
    \/ \E k \in {generate_cache_key(e.message_id, e.body) : e \in {Mail1, Mail3}} :
          CacheResponse(k, PayloadOk)
    \/ \E e \in {[title |-> <<"a", "c">>, date_start |-> d, time_start |-> T14,
                   location |-> None] : d \in {D30, D01}} :
          RegisterEvent(<<"e", "1">>, e)
    \/ Tick
    \/ \E days \in 0..MaxDays : CleanupOldData(days)

SpecCleanup == InitApi /\ [][NextCleanup]_vars

\* The gate asked about every kind of email, between parse_email calls that
\* fill the cache and use up the budget
NextGate ==
    \/ \E email \in GateInputs : IsEventLike(email)
    \/ \E email \in Emails, answer \in {Drop, Json(PayloadOk)} : ParseEmail(email, answer)
    \/ ResetCallCounter

SpecGate == InitApi /\ [][NextGate]_vars

\* EventStore constructed over each kind of store file, then used
InitLoad ==
    /\ other_data = EmptyData
    /\ now = 0
    /\ llm_calls_made = 0
    /\ max_calls = MaxBudget
    /\ batch = Idle
    /\ oracle_log = NoRun
    /\ \E file \in StoreFiles :
          LET load == _load_data(file)
          IN  /\ store_file = file
              /\ learned_aliases = IF load.raised THEN EmptyMap
                                   ELSE load.data.learned_aliases
              /\ llm_cache = IF load.raised THEN EmptyMap ELSE load.data.llm_cache
              /\ event_dedup = IF load.raised THEN <<>> ELSE load.data.event_dedup
              /\ last = [op |-> "EventStore", file |-> file, raised |-> load.raised]

NextLoad ==
    \/ \E c \in Cuisines, x \in {Conf(3), Conf(10)} :
          LoadedLearnCuisine(<<"p", "a">>, c, x)
    \/ LoadedGetLearnedCuisine(<<"p", "a">>)
    \/ \E k \in {generate_cache_key(Mail1.message_id, Mail1.body)} :
          LoadedGetCachedResponse(k)
    \/ \E e \in {[title |-> <<"a", "c">>, date_start |-> d, time_start |-> T14,
                   location |-> None] : d \in {D30, D01}} :
          \/ LoadedIsDuplicateEvent(e)
          \/ LoadedRegisterEvent(<<"e", "1">>, e)

SpecLoad == InitLoad /\ [][NextLoad]_vars

\* The parser's store caching answers and the post-processor's store
\* learning and registering, each constructed over the same missing file
NextTwo ==
    \/ \E k \in {generate_cache_key(e.message_id, e.body) : e \in {Mail1, Mail3}} :
          CacheResponse(k, PayloadOk)
    \/ \E c \in Cuisines : LearnCuisine(<<"s", "a">>, c, Conf(10))
    \/ \E c \in Cuisines : OtherLearnCuisine(<<"p", "a">>, c, Conf(10))
    \/ \E e \in {[title |-> <<"a", "c">>, date_start |-> d, time_start |-> T14,
                   location |-> None] : d \in {D30, D01}} :
          OtherRegisterEvent(<<"e", "1">>, e)

SpecTwo == InitApi /\ [][NextTwo]_vars

\* Batches of events post-processed against the store
NextBatch ==
    \E events_data \in BatchLists : ProcessEventsBatch(events_data)

SpecBatch == InitApi /\ [][NextBatch]_vars

\* Decoded answers validated and events post-processed against the
\* learning store
NextPost ==
    \/ \E event_data \in PostEvents : ProcessEvent(event_data)
    \/ \E parsed_data \in LlmPayloads, subject \in {Mail1.subject, Mail3.subject} :
          ProcessLlmResponse(parsed_data, Mail1.message_id, subject)

SpecPost == InitApi /\ [][NextPost]_vars

----------------------------------------------------------------------------
(* Claims C1-C5: the call budget and the learning store *)

\* C1 (as stated): within one parse_emails_batch run the oracle is invoked
\* at most max_llm_calls_per_run times, counting every invocation, also
\* one that raises.
C1_InvocationsWithinBudget ==
    batch.running => oracle_log.invoked <= max_calls

\* C1 (amended): within one parse_emails_batch run at most max_calls oracle
\* invocations return; llm_calls_made counts exactly the invocations of the
\* run that returned (an invocation that raises is not counted), and a
\* parse_email call that starts with llm_calls_made >= max_calls ends at the
\* budget check without invoking the oracle.
C1_ReturnedCallsWithinBudget ==
    /\ batch.running => /\ oracle_log.returned <= max_calls
                        /\ oracle_log.returned = llm_calls_made
                        /\ oracle_log.returned <= oracle_log.invoked
    /\ last.op = "parse_email" =>
          /\ last.calls_before >= max_calls => ~last.invoked /\ last.outcome = "budget"
          /\ last.outcome = "oracle_raised" => llm_calls_made = last.calls_before
          /\ last.outcome \in {"no_content", "dropped", "unparsable", "parsed"} =>
                llm_calls_made = last.calls_before + 1

\* A run that used up its budget after an invocation that raised
C1_Witness ==
    /\ batch.running
    /\ oracle_log.returned = max_calls
    /\ oracle_log.invoked > max_calls
    /\ last.op = "parse_email" /\ last.invoked

\* C2: after learn_cuisine(name, cuisine, c) with c at or above the alias
\* threshold on a name with no alias yet, the alias has rolling confidence c
\* and sample count 1, and get_learned_cuisine(name) returns (cuisine, c).
C2_FirstObservationKeepsConfidence ==
    (/\ last.op = "learn_cuisine"
     /\ last.confidence >= alias_confidence_threshold
     /\ last.prev_cuisine = None)
    => /\ learned_aliases[norm_text(last.food_name)].rolling_confidence = last.confidence
       /\ learned_aliases[norm_text(last.food_name)].sample_count = 1
       /\ get_learned_cuisine(last.food_name) = <<last.cuisine, last.confidence>>

C4_LearnedCuisineIffConfident ==
    last.op = "get_learned_cuisine" =>
        LET n == norm_text(last.food_name)
        IN  IF /\ n \in DOMAIN learned_aliases
               /\ learned_aliases[n].rolling_confidence >= alias_confidence_threshold
            THEN last.result = <<learned_aliases[n].last_cuisine,
                                 learned_aliases[n].rolling_confidence>>
            ELSE last.result = None

\* A lookup that returned a learned cuisine under a name in another case
C4_Witness ==
    /\ last.op = "get_learned_cuisine"
    /\ last.result # None
    /\ last.food_name # norm_text(last.food_name)

\* C5: a confident learn_cuisine call on a name that has an alias sets the
\* rolling confidence to alpha * observed + (1 - alpha) * old, adds one to
\* the sample count and stores the observed cuisine as the label.
C5_ConfidentObservationBlends ==
    [][(/\ last'.op = "learn_cuisine"
        /\ last'.confidence >= alias_confidence_threshold
        /\ norm_text(last'.food_name) \in DOMAIN learned_aliases)
       => LET n == norm_text(last'.food_name)
          IN  /\ 10 * learned_aliases'[n].rolling_confidence
                    = 3 * last'.confidence + 7 * learned_aliases[n].rolling_confidence
              /\ learned_aliases'[n].sample_count = learned_aliases[n].sample_count + 1
              /\ learned_aliases'[n].last_cuisine = last'.cuisine]_vars

\* A confident observation that changed the label of an existing alias
C5_Witness ==
    /\ last.op = "learn_cuisine"
    /\ last.confidence >= alias_confidence_threshold
    /\ last.prev_cuisine # None
    /\ last.prev_cuisine # last.cuisine

----------------------------------------------------------------------------
(* Claims C6-C8: the dedup index *)

\* The four fields the primary key is made of agree after normalisation
SameNormalizedFields(e1, e2) ==
    /\ norm_text(e1.title) = norm_text(e2.title)
    /\ e1.date_start = e2.date_start
    /\ norm_text(e1.time_start) = norm_text(e2.time_start)
    /\ norm_text(e1.location) = norm_text(e2.location)

\* C6: after register_event(id, e), is_duplicate_event(e2) returns id for
\* every event e2 whose normalized title, date_start, normalized time_start
\* and normalized location equal those of e; on an empty index no event is
\* reported as a duplicate.
C6_ExactKeyMatchReturnsId ==
    /\ last.op = "register_event" =>
          \A e2 \in Events :
              SameNormalizedFields(e2, last.event_data)
                  => is_duplicate_event(e2) = last.event_id
    /\ event_dedup = <<>> => \A e2 \in Events : is_duplicate_event(e2) = None
    /\ (last.op = "is_duplicate_event" /\ event_dedup = <<>>) => last.result = None

\* An event registered while another event with the same normalized fields
\* and another spelling of the title exists, in an index of two entries
C6_Witness ==
    /\ last.op = "register_event"
    /\ Len(event_dedup) = 2
    /\ \E e2 \in Events : /\ e2 # last.event_data
                          /\ SameNormalizedFields(e2, last.event_data)
                          /\ is_duplicate_event(e2) = last.event_id

\* The fields of the event registered under a stored key.  The digest does
\* not give them back; the model's digest remembers what was hashed.
RegisteredFields(stored_key) == Split(stored_key.md5, "|")

\* The fuzzy criteria of C7 between an event and a registered one
FuzzyMatch(event_data, stored_key) ==
    LET r == RegisteredFields(stored_key)
        loc == norm_text(event_data.location)
    IN  /\ RatioAtLeast(norm_text(event_data.title), r[1], 9, 10)
        /\ IsStr(event_data.date_start)
        /\ Strptime(event_data.date_start) # ValueError
        /\ Strptime(r[2]) # ValueError
        /\ Abs(Strptime(event_data.date_start) - Strptime(r[2])) <= 1
        /\ (loc # <<>> /\ r[4] # <<>>) => RatioAtLeast(loc, r[4], 8, 10)

\* C7: when an event has no exact key match, is_duplicate_event returns the
\* id of a registered event whose normalized title has similarity ratio
\* >= 0.9 with the new title, whose date is within one calendar day and
\* whose location, when both are non-empty, has similarity ratio >= 0.8.
C7_FuzzyFallbackDetects ==
    (/\ last.op = "is_duplicate_event"
     /\ PrimaryKey(last.event_data) \notin DedupKeys
     /\ \E i \in 1..Len(event_dedup) : FuzzyMatch(last.event_data, event_dedup[i].key))
    => \E i \in 1..Len(event_dedup) :
          /\ FuzzyMatch(last.event_data, event_dedup[i].key)
          /\ last.result = event_dedup[i].id

\* C8 (as stated): an entry of the dedup index keeps its key and the id of
\* the first event registered under the key, whatever is registered later.
C8_FirstIdIsKept ==
    [][\A i \in 1..Len(event_dedup) :
          \E j \in 1..Len(event_dedup') : event_dedup'[j] = event_dedup[i]]_vars

\* C8 (amended): register_event(id, e) makes id the id stored under e's
\* primary key, replacing the id an earlier registration stored there, and
\* leaves the entry of every other key as it was.
C8_LastRegistrationWins ==
    [][last'.op = "register_event" =>
          LET key == PrimaryKey(last'.event_data)
          IN  /\ DedupGet(event_dedup', key) = last'.event_id
              /\ {event_dedup'[j].key : j \in 1..Len(event_dedup')}
                    = DedupKeys \cup {key}
              /\ Len(event_dedup') = Cardinality(DedupKeys \cup {key})
              /\ \A i \in 1..Len(event_dedup) :
                    event_dedup[i].key # key
                        => \E j \in 1..Len(event_dedup') :
                              event_dedup'[j] = event_dedup[i]]_vars

\* A registration that replaced another id under its key while the index
\* held an entry for another key
C8_Witness ==
    /\ last.op = "register_event"
    /\ last.replaced # None
    /\ last.replaced # last.event_id
    /\ Len(event_dedup) = 2

----------------------------------------------------------------------------
(* Claims C9-C10: the response cache in parse_email *)

KeyOf(email) == generate_cache_key(email.message_id, email.body)

\* C9: when parse_email is called with budget remaining for a message that
\* passes gating and whose cache key has an unexpired cache entry, the
\* result is built from the cached payload, the oracle is not invoked and
\* llm_calls_made is unchanged.
C9_UnexpiredEntryIsServed ==
    [][(/\ last'.op = "parse_email"
        /\ llm_calls_made < max_calls
        /\ _is_event_like(last'.email)
        /\ KeyOf(last'.email) \in DOMAIN llm_cache
        /\ now - llm_cache[KeyOf(last'.email)].timestamp <= CacheExpiryHours)
       => /\ ~last'.invoked
          /\ llm_calls_made' = llm_calls_made
          /\ last'.result = _process_llm_response(llm_cache[KeyOf(last'.email)].response,
                                                  last'.email.message_id,
                                                  last'.email.subject)]_vars

\* C10: when the oracle answers DROP (bare or quoted), parse_email returns
\* no event and leaves the cache without an entry for the message's key, so
\* that a parse_email call for the same message made next, with budget
\* remaining, invokes the oracle again whatever it answers.
C10_DropLeavesNoEntry ==
    (last.op = "parse_email" /\ last.outcome = "dropped")
    => /\ last.result = None
       /\ KeyOf(last.email) \notin DOMAIN llm_cache
       /\ llm_calls_made < max_calls =>
             \A answer \in Answers : ParseEmailRun(last.email, answer).invoked

----------------------------------------------------------------------------
(* Claims C11-C12: failures and the budget signal of parse_email *)

\* C11: an oracle invocation that raises does not propagate out of
\* parse_email: the call returns no event and llm_calls_made is the same
\* after the call as before it.
C11_RaisingCallCostsNoBudget ==
    (last.op = "parse_email" /\ last.outcome = "oracle_raised")
    => /\ last.invoked
       /\ last.result = None
       /\ llm_calls_made = last.calls_before
       /\ llm_calls_made < max_calls

\* A call that raised after another call of the run had been counted
C11_Witness ==
    /\ last.op = "parse_email"
    /\ last.outcome = "oracle_raised"
    /\ last.calls_before > 0

\* C12: the outcome parse_email gives its caller when the budget is used up
\* differs from the one it gives when the oracle answers DROP: after a call
\* that ended with DROP and used up the budget, what the next call returns
\* is not what that call returned.
C12_BudgetSignalDistinctFromDrop ==
    (last.op = "parse_email" /\ last.outcome = "dropped" /\ BudgetExhausted)
    => \A email \in Emails, answer \in Answers :
          /\ ParseEmailRun(email, answer).outcome = "budget"
          /\ ParseEmailRun(email, answer).result # last.result

----------------------------------------------------------------------------
(* Claims C13-C14: cleanup_old_data *)

RegisteredDateHours(stored_key) == DateHours(RegisteredFields(stored_key)[2])

\* C14: cleanup_old_data(days) removes exactly the cache entries whose
\* timestamp, and the dedup entries whose event date, is older than now
\* minus days; every entry that is not older is present afterwards,
\* unchanged, and no entry is added.
C14_CleanupRemovesExactlyOld ==
    [][last'.op = "cleanup_old_data" =>
          LET cutoff == now - last'.days * HoursPerDay
          IN  /\ DOMAIN llm_cache' =
                    {k \in DOMAIN llm_cache : ~(llm_cache[k].timestamp < cutoff)}
              /\ \A k \in DOMAIN llm_cache' : llm_cache'[k] = llm_cache[k]
              /\ event_dedup' =
                    SelectSeq(event_dedup,
                              LAMBDA entry : ~(RegisteredDateHours(entry.key) < cutoff))]_vars

----------------------------------------------------------------------------
(* Claims C15-C16: cache entries *)

\* C15: get_cached_response returns the payload of an entry that is at most
\* 24 hours old and leaves the cache as it is; the first lookup made more
\* than 24 hours after the entry was written returns absent and removes the
\* entry (and no other); a key that has no entry gets one only when
\* cache_response writes it, with the time of writing as its timestamp.
C15_LazyExpiryAfter24Hours ==
    [][/\ last'.op = "get_cached_response" =>
             LET k == last'.cache_key
             IN  IF k \notin DOMAIN llm_cache
                 THEN last'.result = None /\ llm_cache' = llm_cache
                 ELSE IF now - llm_cache[k].timestamp <= CacheExpiryHours
                 THEN last'.result = llm_cache[k].response /\ llm_cache' = llm_cache
                 ELSE /\ last'.result = None
                      /\ DOMAIN llm_cache' = DOMAIN llm_cache \ {k}
                      /\ \A j \in DOMAIN llm_cache' : llm_cache'[j] = llm_cache[j]
       /\ \A k \in DOMAIN llm_cache' \ DOMAIN llm_cache :
             /\ last'.op = "parse_email"
             /\ last'.outcome = "parsed"
             /\ KeyOf(last'.email) = k
             /\ llm_cache'[k].timestamp = now]_vars

\* A lookup that found an entry written more than 24 hours earlier and
\* removed it
C15_Witness ==
    /\ last.op = "get_cached_response"
    /\ last.removed
    /\ last.result = None
    /\ last.cache_key \notin DOMAIN llm_cache
    /\ now > CacheExpiryHours

\* C16: the payload a cache entry holds is the payload the oracle gave, as
\* cache_response stored it: serving it or post-processing it in
\* parse_email does not alter it.
C16_CachedPayloadIsRaw ==
    \A k \in DOMAIN llm_cache : llm_cache[k].response \in Payloads

----------------------------------------------------------------------------
(* Claims C17-C20: post-processing and validation *)

\* An event that lacks nothing validation asks for: a title, and a date and
\* times that are absent or match their grammar
WellFormed(d) ==
    /\ Truthy(Get(d, "title"))
    /\ Get(d, "date_start") # None => MatchesDate(d["date_start"])
    /\ Get(d, "time_start") # None => MatchesTime(d["time_start"])
    /\ Get(d, "time_end") # None => MatchesTime(d["time_end"])

\* The confidence the oracle gave under `key`; 1.0 when it gave none
GivenConfidence(d, key) ==
    IF "confidence" \in DOMAIN d /\ key \in DOMAIN d["confidence"]
    THEN d["confidence"][key] ELSE Scale

\* C17: process_event keeps an event's category (one of the configured
\* categories) when its category confidence is at or above the threshold
\* 0.6, nulls it when the confidence is strictly below, and produces the
\* event in both cases.
C17_CategoryKeptAtThreshold ==
    (/\ last.op = "process_event"
     /\ WellFormed(last.event_data)
     /\ Get(last.event_data, "category") \in Categories)
    => /\ last.result # None
       /\ last.result[2].category =
             IF GivenConfidence(last.event_data, "category") * 10 < 6 * Scale
             THEN None ELSE last.event_data["category"]

\* An event whose category confidence is exactly 0.6, kept with its category
C17_Witness ==
    /\ last.op = "process_event"
    /\ Get(last.event_data, "category") \in Categories
    /\ GivenConfidence(last.event_data, "category") * 10 = 6 * Scale
    /\ last.result # None
    /\ last.result[2].category = last.event_data["category"]

\* The food items of an event, and those of them that have a name
ItemsOf(d) == IF "food" \in DOMAIN d THEN d["food"] ELSE <<>>
Named(items) == {i \in 1..Len(items) : norm_text(items[i].name) # <<>>}

\* The place of named item i among the items kept
Rank(items, i) == Cardinality({j \in Named(items) : j <= i})

\* The cuisine of an item after confidence filtering and vocabulary
\* validation
SurvivingCuisine(item) ==
    IF GivenConfidence(item, "cuisine") * 10 < 6 * Scale THEN None
    ELSE IF item.cuisine \in CuisineVocabulary THEN item.cuisine
    ELSE None

\* C18: every named food item is retained; an item that has no cuisine
\* after filtering and validation gets the learned cuisine of its
\* normalized name exactly when get_learned_cuisine returns one, and stays
\* without cuisine otherwise; an item that carries a cuisine keeps it.
C18_LearnedCuisineBackfills ==
    /\ [][last'.op = "process_event" =>
             LET items == ItemsOf(last'.event_data)
             IN  \A i \in Named(items) :
                    \* the store is asked before any item of that name
                    \* has been learned from in this call
                    (\A j \in 1..(i - 1) : norm_text(items[j].name) # norm_text(items[i].name))
                    => last'.looked[i].learned_cuisine
                          = get_learned_cuisine(items[i].name)]_vars
    /\ []((last.op = "process_event" /\ last.result # None) =>
             LET items == ItemsOf(last.event_data)
                 food == last.result[2].food
             IN  /\ Len(food) = Cardinality(Named(items))
                 /\ \A i \in Named(items) :
                       LET out == food[Rank(items, i)]
                           learned == last.looked[i].learned_cuisine
                       IN  /\ out.name = norm_text(items[i].name)
                           /\ out.cuisine =
                                 IF SurvivingCuisine(items[i]) # None
                                 THEN SurvivingCuisine(items[i])
                                 ELSE IF learned # None THEN learned[1]
                                 ELSE None)

\* An event with an item without cuisine that got the learned one, and an
\* item that kept a cuisine other than the learned one
C18_Witness ==
    /\ last.op = "process_event"
    /\ last.result # None
    /\ \E i \in Named(ItemsOf(last.event_data)) :
          /\ SurvivingCuisine(ItemsOf(last.event_data)[i]) = None
          /\ last.looked[i].learned_cuisine # None
          /\ last.result[2].food[Rank(ItemsOf(last.event_data), i)].cuisine
                = last.looked[i].learned_cuisine[1]
    /\ \E i \in Named(ItemsOf(last.event_data)) :
          /\ SurvivingCuisine(ItemsOf(last.event_data)[i]) # None
          /\ last.looked[i].learned_cuisine # None
          /\ last.looked[i].learned_cuisine[1] # SurvivingCuisine(ItemsOf(last.event_data)[i])

\* The named items of an event whose cuisine survives
Surviving(items) == {i \in Named(items) : SurvivingCuisine(items[i]) # None}

\* C19: process_event calls learn_cuisine(normalized name, cuisine,
\* confidence) exactly once for each named food item whose cuisine
\* survives filtering, in the order of the items, and makes no other
\* learn_cuisine call; when no cuisine survives the learned aliases are
\* left as they are.
C19_LearnsOncePerSurvivingCuisine ==
    /\ [][(last'.op = "process_event" /\ Surviving(ItemsOf(last'.event_data)) = {})
          => learned_aliases' = learned_aliases]_vars
    /\ [](last.op = "process_event" =>
             LET items == ItemsOf(last.event_data)
             IN  /\ Len(last.calls) = Cardinality(Surviving(items))
                 /\ \A i \in Surviving(items) :
                       last.calls[Cardinality({j \in Surviving(items) : j <= i})]
                          = [food_name |-> norm_text(items[i].name),
                             cuisine |-> items[i].cuisine,
                             confidence |-> GivenConfidence(items[i], "cuisine")])

\* An event with one item whose cuisine was learned and one whose cuisine
\* was nulled
C19_Witness ==
    /\ last.op = "process_event"
    /\ Len(last.calls) = 1
    /\ Cardinality(Named(ItemsOf(last.event_data))) = 2
    /\ learned_aliases # EmptyMap

\* The date and times a record gives: the values other than None under
\* date_start, time_start and time_end
GivenDate(d) == Get(d, "date_start")
GivenTimes(d) == {Get(d, k) : k \in {"time_start", "time_end"}} \ {None}

Malformed(d) ==
    \/ GivenDate(d) # None /\ ~MatchesDate(GivenDate(d))
    \/ \E t \in GivenTimes(d) : ~MatchesTime(t)

\* The record a step validated and what came of it
Validated ==
    IF last.op = "process_event" THEN last.event_data
    ELSE Items(last.parsed_data)

\* C20 (as stated): a record whose date_start does not match YYYY-MM-DD or
\* whose time_start or time_end does not match HH:MM yields no event, from
\* _process_llm_response and from process_event.
C20_MalformedYieldsNoEvent ==
    (/\ last.op \in {"process_event", "_process_llm_response"}
     /\ last.op = "_process_llm_response" => IsDict(last.parsed_data))
    => (Malformed(Validated) => last.result = None)

\* The literal strings _clean_none_values turns into None
NoneLike == {StrNone, StrNull}

\* C20 (amended): as stated, except that _process_llm_response takes a
\* date or time that is the literal string "None" or "null" for an absent
\* value: the field is None in the event it yields.  Every other date or
\* time that does not match its grammar yields no event (process_event
\* makes no exception), and a date_start that matches is kept unchanged.
C20_MalformedYieldsNoEventUnlessNoneLike ==
    (/\ last.op \in {"process_event", "_process_llm_response"}
     /\ last.op = "_process_llm_response" => IsDict(last.parsed_data))
    => LET d == Validated
           excused == IF last.op = "_process_llm_response" THEN NoneLike ELSE {}
           cleaned == [k \in DOMAIN d |-> IF d[k] \in excused THEN None ELSE d[k]]
       IN  /\ Malformed(cleaned) => last.result = None
           /\ (~Malformed(cleaned) /\ Truthy(Get(d, "title"))) =>
                 /\ last.result # None
                 /\ last.result[2].date_start = GivenDate(cleaned)
                 /\ last.result[2].time_start = Get(cleaned, "time_start")
                 /\ last.result[2].time_end = Get(cleaned, "time_end")

\* A decoded answer with a malformed date, rejected
C20_Witness ==
    /\ last.op = "_process_llm_response"
    /\ IsDict(last.parsed_data)
    /\ GivenDate(Items(last.parsed_data)) = BadDate
    /\ last.result = None

\* The record a step validated, the literal strings "None" and "null" of a
\* decoded answer taken for absent values
Given ==
    IF last.op = "process_event" THEN last.event_data
    ELSE [k \in DOMAIN Validated |->
            IF Validated[k] \in NoneLike THEN None ELSE Validated[k]]

\* The cuisine an item of a decoded answer gives
GivenCuisine(item) ==
    IF Get(item, "cuisine") \in NoneLike THEN None ELSE Get(item, "cuisine")

\* C21: a category that is not in the configured category list is absent
\* on the resulting event, and a food item's cuisine that is not in the
\* configured cuisine list is absent on the resulting item; neither makes
\* the event or the item be rejected.  This holds for the event
\* _process_llm_response validates and for the one process_event builds,
\* where an item whose cuisine has become absent is then open to the
\* learned cuisine of its name like any item without cuisine.
C21_OutsideVocabularyBecomesAbsent ==
    (/\ last.op \in {"process_event", "_process_llm_response"}
     /\ last.op = "_process_llm_response" => IsDict(last.parsed_data))
    => (WellFormed(Given) =>
          /\ last.result # None
          /\ Get(Given, "category") \notin Categories
                => last.result[2].category = None
          /\ LET items == ItemsOf(Given)
                 food == last.result[2].food
             IN  IF last.op = "_process_llm_response"
                 THEN /\ Len(food) = Len(items)
                      /\ \A i \in 1..Len(items) :
                            /\ food[i].name = items[i].name
                            /\ GivenCuisine(items[i]) \notin CuisineVocabulary
                                  => food[i].cuisine = None
                 ELSE /\ Len(food) = Cardinality(Named(items))
                      /\ \A i \in Named(items) :
                            LET out == food[Rank(items, i)]
                                learned == last.looked[i].learned_cuisine
                            IN  /\ out.name = norm_text(items[i].name)
                                /\ items[i].cuisine \notin CuisineVocabulary
                                      => /\ last.looked[i].cuisine = None
                                         /\ out.cuisine = IF learned # None
                                                          THEN learned[1] ELSE None)

\* A decoded answer whose only food item has a cuisine outside the list:
\* the event is produced and holds the item, without cuisine
C21_Witness ==
    /\ last.op = "_process_llm_response"
    /\ IsDict(last.parsed_data)
    /\ last.result # None
    /\ Len(ItemsOf(Items(last.parsed_data))) = 1
    /\ ItemsOf(Items(last.parsed_data))[1].cuisine = <<"Klingon">>
    /\ last.result[2].food[1].name = <<"p", "a">>
    /\ last.result[2].food[1].cuisine = None

\* An event whose category is outside the list, produced without category
C21_WitnessCategory ==
    /\ last.op = "process_event"
    /\ Get(last.event_data, "category") = <<"rave">>
    /\ GivenConfidence(last.event_data, "category") = Conf(8)
    /\ last.result # None
    /\ last.result[2].category = None

\* C22: the mailing_list of the event _process_llm_response yields is the
\* one the oracle payload supplied, whatever the subject holds; it is the
\* first [TAG] of the subject only when the payload supplied none.
C22_OracleMailingListKept ==
    (/\ last.op = "_process_llm_response"
     /\ IsDict(last.parsed_data)
     /\ last.result # None)
    => last.result[2].mailing_list =
          IF Get(Items(last.parsed_data), "mailing_list") # None
          THEN Items(last.parsed_data)["mailing_list"]
          ELSE _extract_mailing_list_from_subject(last.subject)

\* The decision table of the gate
Accepts(email) ==
    IF email.body_len < 100 THEN FALSE
    ELSE IF email.subject_has_keyword THEN TRUE
    ELSE IF email.body_len < 200 /\ email.body_has_mailing_list THEN FALSE
    ELSE \/ email.body_has_keyword
         \/ email.body_has_time /\ email.body_has_location

\* C23: _is_event_like rejects a body of fewer than 100 normalized
\* characters; otherwise it accepts when the subject holds an event keyword
\* (also for a body under 200 characters that holds "mailing list");
\* otherwise it rejects a body under 200 characters that holds "mailing
\* list"; otherwise it accepts exactly when the body holds an event keyword
\* or both a date/time pattern and a location keyword.  parse_email gates
\* by the same table, and a call of _is_event_like changes neither the
\* store nor the call counter.
C23_GateDecisionTable ==
    /\ [][last'.op = "_is_event_like"
             => UNCHANGED <<learned_aliases, llm_cache, event_dedup, store_file,
                            llm_calls_made>>]_vars
    /\ [](last.op = "_is_event_like" => last.result = Accepts(last.email))
    /\ []((last.op = "parse_email" /\ last.outcome # "budget")
             => (last.outcome = "gated" <=> ~Accepts(last.email)))

\* The gate accepting a body under 200 characters that holds "mailing
\* list" and nothing else, on the strength of its subject, with entries in
\* the cache and calls counted
C23_Witness ==
    /\ last.op = "_is_event_like"
    /\ last.email.body_len = 199
    /\ last.email.body_has_mailing_list
    /\ last.email.subject_has_keyword
    /\ ~last.email.body_has_keyword
    /\ ~last.email.body_has_time
    /\ last.result = TRUE
    /\ llm_cache # EmptyMap
    /\ llm_calls_made > 0

\* C24: in parse_emails_batch an email that yields no event (its oracle
\* call raises, its answer is DROP or cannot be parsed, or its payload
\* fails validation) adds nothing to the events and does not stop the run:
\* the loop moves to the next email, and the run ends only at the end of
\* the list or when the budget is used up.  Every email is visited at most
\* once, and the run returns exactly the events produced, in the order of
\* their emails.
C24_FailedEmailDoesNotStopRun ==
    /\ [][(batch.running /\ last'.op = "parse_email")
             => /\ batch'.running
                /\ batch'.n = batch.n
                /\ batch'.idx = batch.idx + 1
                /\ batch'.parsed_events =
                      IF last'.result = None THEN batch.parsed_events
                      ELSE Append(batch.parsed_events, last'.result)]_vars
    /\ [][(batch.running /\ ~batch'.running)
             => /\ batch.idx = batch.n \/ llm_calls_made >= max_calls
                /\ last'.op \in {"batch_return", "batch_break"}
                /\ last'.returned = batch.parsed_events]_vars
    /\ [](batch.running
             => /\ batch.idx <= batch.n
                /\ Len(batch.parsed_events) <= batch.idx)

\* A run whose second email failed validation, at its third email with the
\* event of the first still held
C24_Witness ==
    /\ batch.running
    /\ batch.idx = 2
    /\ batch.n = 3
    /\ Len(batch.parsed_events) = 1
    /\ last.op = "parse_email"
    /\ last.outcome = "parsed"
    /\ last.result = None
    /\ llm_calls_made < max_calls

\* The email has a cache entry that parse_email would serve
Cached(email) ==
    /\ KeyOf(email) \in DOMAIN llm_cache
    /\ now - llm_cache[KeyOf(email)].timestamp <= 24
    /\ JsonTruthy(llm_cache[KeyOf(email)].response)

\* C27: once llm_calls_made has reached max_calls, parse_email returns no
\* event for every message, also for one that has an unexpired cache
\* entry, without asking the oracle or touching the cache; after the
\* counter is reset a message that passes the gate and has an entry is
\* served from the cache again.  parse_emails_batch, once the budget is
\* used up, parses no further email: its next step ends the run, so the
\* remaining messages are not served from the cache either.
C27_ExhaustedBudgetBlocksCache ==
    /\ [][(last'.op = "parse_email" /\ llm_calls_made >= max_calls)
             => /\ last'.result = None
                /\ last'.outcome = "budget"
                /\ ~last'.invoked
                /\ llm_cache' = llm_cache
                /\ llm_calls_made' = llm_calls_made]_vars
    /\ [][(/\ last'.op = "parse_email"
           /\ llm_calls_made < max_calls
           /\ Accepts(last'.email)
           /\ Cached(last'.email))
             => /\ last'.outcome = "cache_hit"
                /\ ~last'.invoked]_vars
    /\ [][(batch.running /\ llm_calls_made >= max_calls)
             => /\ ~batch'.running
                /\ last'.op \in {"batch_return", "batch_break"}
                /\ llm_cache' = llm_cache]_vars

\* parse_email returning nothing, at the budget check, for a message that
\* passes the gate and has a cache entry holding a valid payload
C27_Witness ==
    /\ last.op = "parse_email"
    /\ last.outcome = "budget"
    /\ last.result = None
    /\ Accepts(last.email)
    /\ Cached(last.email)
    /\ _process_llm_response(llm_cache[KeyOf(last.email)].response,
                             last.email.message_id, last.email.subject) # None

\* A batch run broken off at the budget with emails left, one of which has
\* a cache entry
C27_WitnessBatch ==
    /\ last.op = "batch_break"
    /\ \E email \in Emails : Accepts(email) /\ Cached(email)

\* The store files that cannot be read or whose content is corrupt
CorruptFiles == {Unreadable, InvalidJson, InvalidUtf8, EmptyObject}

\* C26: constructing EventStore over a store file that cannot be read or
\* whose content is corrupt does not raise and yields empty learned
\* aliases, cache and dedup index; no later store operation raises.
C26_CorruptFileLoadsEmpty ==
    /\ (last.op = "EventStore" /\ last.file \in CorruptFiles)
          => /\ ~last.raised
             /\ learned_aliases = EmptyMap
             /\ llm_cache = EmptyMap
             /\ event_dedup = <<>>
    /\ last.op # "EventStore"
          => ~("raised" \in DOMAIN last /\ last.raised)

\* The keys a store file holds in its three maps
FileKeys(file) ==
    IF file = NoFile THEN [learned_aliases |-> {}, llm_cache |-> {}, event_dedup |-> {}]
    ELSE [learned_aliases |-> DOMAIN file.learned_aliases,
          llm_cache |-> DOMAIN file.llm_cache,
          event_dedup |-> {file.event_dedup[i].key : i \in 1..Len(file.event_dedup)}]

\* C28: with two EventStore instances over the same file, every entry the
\* file holds, whichever instance saved it, is still in the file after a
\* mutation through either instance.
C28_EntriesSurviveOtherInstance ==
    [][\A m \in {"learned_aliases", "llm_cache", "event_dedup"} :
          FileKeys(store_file)[m] \subseteq FileKeys(store_file')[m]]_vars

\* The dedup primary key of a ParsedEvent
EventKey(event) == PrimaryKey(event[2])

\* The primary keys the dedup index holds
KeysIn(dedup) == {dedup[i].key : i \in 1..Len(dedup)}

\* C25: of a process_events_batch call, no returned event has a primary
\* key the store held before the call, no two returned events have the
\* same primary key, and the call registers exactly the returned events,
\* once each: the index grows by one entry per returned event, holding
\* that event's key, and the entries it held are untouched.  An event the
\* store reported as a duplicate is not returned, and its key is in the
\* index already.
C25_ReturnedEventsRegisteredOnce ==
    [][last'.op = "process_events_batch" =>
          LET returned == last'.returned
              log == last'.log
          IN  /\ \A i \in 1..Len(returned) : EventKey(returned[i]) \notin KeysIn(event_dedup)
              /\ \A i, j \in 1..Len(returned) :
                    i # j => EventKey(returned[i]) # EventKey(returned[j])
              /\ Len(event_dedup') = Len(event_dedup) + Len(returned)
              /\ SubSeq(event_dedup', 1, Len(event_dedup)) = event_dedup
              /\ \A i \in 1..Len(returned) :
                    event_dedup'[Len(event_dedup) + i].key = EventKey(returned[i])
              /\ \A i \in 1..Len(log) :
                    log[i].step = "duplicate"
                    => /\ \A j \in 1..Len(returned) :
                             returned[j] = log[i].event
                             => \E k \in 1..Len(log) :
                                   k # i /\ log[k].step = "accepted"
                                         /\ log[k].event = returned[j]
                       /\ EventKey(log[i].event) \in KeysIn(event_dedup')]_vars

\* A batch of two events with the same primary key, the first returned and
\* registered, the second reported as a duplicate
C25_Witness ==
    /\ last.op = "process_events_batch"
    /\ Len(last.events_data) = 2
    /\ Len(last.returned) = 1
    /\ last.log[1].step = "accepted"
    /\ last.log[2].step = "duplicate"
    /\ EventKey(last.log[2].event) = EventKey(last.returned[1])
    /\ Len(event_dedup) = 1

\* The learn_cuisine calls process_event makes for the items given: one
\* for each named item whose cuisine survives, in order
RECURSIVE ExpectedCalls(_)
ExpectedCalls(items) ==
    IF items = <<>> THEN <<>>
    ELSE (IF norm_text(Head(items).name) # <<>> /\ SurvivingCuisine(Head(items)) # None
          THEN <<[food_name |-> norm_text(Head(items).name),
                  cuisine |-> Head(items).cuisine,
                  confidence |-> GivenConfidence(Head(items), "cuisine")]>>
          ELSE <<>>)
         \o ExpectedCalls(Tail(items))

\* The learn_cuisine calls of the events of a batch that were
\* post-processed, from event i on
RECURSIVE ExpectedBatchCalls(_, _, _)
ExpectedBatchCalls(events_data, log, i) ==
    IF i > Len(events_data) THEN <<>>
    ELSE (IF log[i].step = "seen" THEN <<>> ELSE ExpectedCalls(ItemsOf(events_data[i])))
         \o ExpectedBatchCalls(events_data, log, i + 1)

\* C29: process_events_batch post-processes an event, and so learns from
\* its food items, before it asks the store whether the event is a
\* duplicate: the learned aliases after the call are those before it with
\* the observations of every post-processed event learned in order, those
\* of the events then suppressed as duplicates included.
C29_DuplicateStillLearnedFrom ==
    [][last'.op = "process_events_batch" =>
          /\ learned_aliases' =
                AliasesAfterCalls(learned_aliases,
                                  ExpectedBatchCalls(last'.events_data, last'.log, 1))
          /\ \A i \in 1..Len(last'.log) :
                last'.log[i].step = "duplicate"
                => last'.log[i].calls = ExpectedCalls(ItemsOf(last'.events_data[i]))]_vars

\* A batch of one event, suppressed as a duplicate, whose food item is the
\* last observation the store learned
C29_Witness ==
    /\ last.op = "process_events_batch"
    /\ Len(last.events_data) = 1
    /\ last.log[1].step = "duplicate"
    /\ last.returned = <<>>
    /\ Len(last.log[1].calls) = 1
    /\ Has(learned_aliases, <<"p", "a">>)
    /\ learned_aliases[<<"p", "a">>].last_cuisine = last.log[1].calls[1].cuisine
    /\ learned_aliases[<<"p", "a">>].last_cuisine = <<"Japanese">>

\* C30: process_events_batch omits an event only when post-processing
\* rejects it or the store holds its primary key: after the call every
\* event of the batch that post-processing accepts has its primary key in
\* the dedup index.  In particular two events with the same raw title,
\* date_start and time_start and different locations are both registered.
C30_OmittedOnlyIfRejectedOrDuplicate ==
    last.op = "process_events_batch" =>
       \A i \in 1..Len(last.events_data) :
          \A run \in {ProcessEventRun(last.events_data[i])} :
             run.result # None => EventKey(run.result) \in KeysIn(event_dedup)

====
